---- MODULE Spec2Model ----
(***************************************************************************)
(* State-machine model of the blind-navigation backend.                    *)
(*                                                                         *)
(*   src/app.py  the enhanced server: destination store, location tracker  *)
(*               (throttle, bounded history, running statistics) and the   *)
(*               navigation-session manager.                               *)
(*   src/gps.py  the basic server: navigation sessions only.  It is a      *)
(*               separate process with its own module globals, modelled    *)
(*               by the gps_ variables.                                    *)
(*                                                                         *)
(* Conventions.                                                            *)
(*   - A Python value that may be None, or a dict key that may be absent,  *)
(*     is an option: None == <<>> and Some(v) == <<v>>.                    *)
(*   - A dict with a dynamic key set is a function whose DOMAIN is the     *)
(*     key set (Put / Get).                                                *)
(*   - time.time() and datetime.now() are the variable now, in whole       *)
(*     seconds since the process started.                                  *)
(*   - Distances are whole metres (the code keeps float kilometres).       *)
(*   - Each request handler is one action; what it returns is the          *)
(*     variable response.                                                  *)
(*   - A run is a run of one of the two programs: server names it.         *)
(***************************************************************************)
EXTENDS Integers, Sequences, FiniteSets, TLC

VARIABLES
    navigation_sessions,     \* app.py: session_id -> session record
    completed_steps,         \* app.py: global list of step completion records
    location_history,        \* app.py: session_id -> list of location records
    location_stats,          \* app.py: session_id -> statistics record
    api_request_logs,        \* app.py: len(api_request_logs)
    last_location_update,    \* app.py: session_id -> time of last accepted update
    location_update_counts,  \* app.py: session_id -> number of updates
    CURRENT_DESTINATION,     \* app.py: the single destination record
    gps_navigation_sessions, \* gps.py: session_id -> session record
    gps_completed_steps,     \* gps.py: global list of step completion records
    now,                     \* the clock
    response,                \* what the last handler returned
    server,                  \* which of the two programs this run is a run of
    appended,                \* history variable: session_id -> every record ever
                             \* appended to location_history[session_id], in order
    threads                  \* app.py: the request handlers in progress, one per
                             \* worker thread: where each stands and its locals

vars == <<navigation_sessions, completed_steps, location_history, location_stats,
          api_request_logs, last_location_update, location_update_counts,
          CURRENT_DESTINATION, gps_navigation_sessions, gps_completed_steps,
          now, response, server, appended, threads>>

appVars == <<navigation_sessions, completed_steps, location_history, location_stats,
             api_request_logs, last_location_update, location_update_counts,
             CURRENT_DESTINATION, appended>>

gpsVars == <<gps_navigation_sessions, gps_completed_steps>>

locVars == <<location_history, location_stats, last_location_update,
             location_update_counts, appended>>

navVars == <<navigation_sessions, completed_steps>>

(***************************************************************************)
(* Options and dicts                                                       *)
(***************************************************************************)
None == <<>>

Some(v) == <<v>>

IsSome(o) == o /= <<>>

Val(o) == o[1]

EmptyDict == <<>>

Put(d, k, v) == [x \in (DOMAIN d) \cup {k} |-> IF x = k THEN v ELSE d[x]]

Get(d, k, default) == IF k \in DOMAIN d THEN d[k] ELSE default

Abs(x) == IF x < 0 THEN -x ELSE x

Min(a, b) == IF a < b THEN a ELSE b

\* The last n elements of s: the Python slice s[-n:] for n > 0.
LastN(s, n) == IF Len(s) <= n THEN s ELSE SubSeq(s, Len(s) - n + 1, Len(s))

RECURSIVE Gcd(_, _)
Gcd(a, b) == IF b = 0 THEN Abs(a) ELSE Gcd(b, a % b)

\* A float that is not a whole number is kept as an exact fraction in lowest
\* terms with a positive denominator.
Frac(n, d) ==
    LET g == Gcd(Abs(n), Abs(d))
        s == IF d < 0 THEN -1 ELSE 1
    IN  [num |-> (s * n) \div g, den |-> (s * d) \div g]

\* round(x, 1) and f"{x:.1f}" of x = n / d, in tenths: the nearest tenth, a
\* tie going to the even one.
RoundTenths(n, d) ==
    LET f == Frac(10 * n, d)
        q == f.num \div f.den
        r == f.num % f.den
    IN  IF 2 * r < f.den THEN q
        ELSE IF 2 * r > f.den THEN q + 1
        ELSE IF q % 2 = 0 THEN q ELSE q + 1

(***************************************************************************)
(* Program constants                                                       *)
(***************************************************************************)
\* Minimum seconds between updates per session (2.0).
LOCATION_UPDATE_THROTTLE == 2

\* "Keep only last 200 locations per session".
MaxLocationHistory == 200

\* "Limit bulk updates": more than 50 locations are rejected.
MaxBulkLocations == 50

\* "Keep only last 50 speed records".
MaxSpeedRecords == 50

\* "Keep only last 1000 logs".
MaxApiRequestLogs == 1000

\* Earth's radius in km.
R == 6371

(***************************************************************************)
(* GeoMath                                                                 *)
(***************************************************************************)
\* The float nan, which request.get_json() reads from the JSON literal NaN
\* and float() from the text "nan": encoded as a number that is no
\* coordinate and no distance of the model.
NaN == -1000

\* Great-circle length of one degree of arc in metres: R * pi / 180, with
\* pi taken as 355/113.
MetresPerDegree == (R * 100 * 355) \div (113 * 18)

\* A distance taken from the sum of the latitudes, not their difference.
calculate_distance_LatitudeSum(lat1, lng1, lat2, lng2) ==
    MetresPerDegree * Abs(lat2 + lat1)

\* Haversine distance, in metres, between (lat1, lng1) and (lat2, lng2) given
\* in whole degrees.  Two points on one meridian (dlng = 0) are |dlat| of arc
\* apart, two points on the equator |dlng|; the model's coordinates are all of
\* these two kinds, and no other case is defined.
\* A coordinate that is nan makes every float of the computation nan, and
\* none of the math functions raises on it.
calculate_distance(lat1, lng1, lat2, lng2) ==
    IF NaN \in {lat1, lng1, lat2, lng2} THEN NaN
    ELSE CASE lng1 = lng2 -> MetresPerDegree * Abs(lat2 - lat1)
           [] lng1 /= lng2 /\ lat1 = 0 /\ lat2 = 0 ->
                 MetresPerDegree * Min(Abs(lng2 - lng1), 360 - Abs(lng2 - lng1))

(***************************************************************************)
(* Request logging                                                         *)
(***************************************************************************)
\* log_api_request appends one entry and drops the oldest beyond 1000; the
\* model keeps the length of the list.
log_api_request(logs) ==
    IF logs + 1 > MaxApiRequestLogs THEN MaxApiRequestLogs ELSE logs + 1

(***************************************************************************)
(* Location data                                                           *)
(***************************************************************************)
\* A location dict: latitude and longitude keys may be absent, accuracy and
\* speed are optional.
Location(lat, lng, acc, spd) ==
    [latitude |-> lat, longitude |-> lng, accuracy |-> acc, speed |-> spd]

\* The hardcoded default destination lies at (32.0992, 76.2691); the model
\* keeps whole degrees, and every modelled position lies on its meridian.
DefaultLatitude == 32

DefaultLongitude == 76

Point(lat) == Location(Some(lat), Some(DefaultLongitude), None, None)

PointAcc(lat, acc) == Location(Some(lat), Some(DefaultLongitude), Some(acc), None)

PointSpeed(lat, spd) == Location(Some(lat), Some(DefaultLongitude), None, Some(spd))

\* A location dict without its latitude key.
NoLatitude == Location(None, Some(DefaultLongitude), None, None)

\* location_data.get('accuracy') is truthy: present and not 0.
Truthy(o) == IsSome(o) /\ Val(o) /= 0

(***************************************************************************)
(* update_location_stats                                                   *)
(***************************************************************************)
\* stats: the location_stats dict; returns the dict after the call.  raised
\* tells whether the call ends in an exception, and where.
NewStats(location_data) ==
    [first_location |-> Some(location_data),
     last_location |-> Some(location_data),
     total_distance |-> 0,
     total_updates |-> 0,
     average_accuracy |-> Frac(0, 1),
     speed_records |-> <<>>]

\* The mean of the current average and the new accuracy, whatever the count.
RunningMean_Unweighted(current_avg, count, accuracy) ==
    Frac(current_avg.num + accuracy * current_avg.den, current_avg.den * 2)

\* The running mean ((current_avg * (count - 1)) + accuracy) / count.
RunningMean(current_avg, count, accuracy) ==
    Frac(current_avg.num * (count - 1) + accuracy * current_avg.den,
         current_avg.den * count)

\* A list that, when full, drops the record it was just given.
TrackSpeed_DropsNewest(records, location_data, t) ==
    IF IsSome(location_data.speed) /\ Val(location_data.speed) > 0
    THEN LET r == Append(records, [speed |-> Val(location_data.speed), timestamp |-> t])
         IN  IF Len(r) > MaxSpeedRecords THEN SubSeq(r, 1, MaxSpeedRecords) ELSE r
    ELSE records

\* speed_records after "append, then pop(0) when longer than 50".
TrackSpeed(records, location_data, t) ==
    IF IsSome(location_data.speed) /\ Val(location_data.speed) > 0
    THEN LET r == Append(records, [speed |-> Val(location_data.speed), timestamp |-> t])
         IN  IF Len(r) > MaxSpeedRecords THEN Tail(r) ELSE r
    ELSE records

\* A total that keeps the last leg only.
AddDistance_Overwrites(total_distance, distance) == distance

\* stats["total_distance"] += distance
AddDistance(total_distance, distance) == total_distance + distance

\* Whether update_location_stats raises: the previous location, or the new
\* one, lacks a coordinate (KeyError) when a distance is due.
StatsRaises(stats, session_id, location_data) ==
    /\ session_id \in DOMAIN stats
    /\ stats[session_id].total_updates > 0
    /\ \/ ~IsSome(stats[session_id].last_location)
       \/ ~IsSome(Val(stats[session_id].last_location).latitude)
       \/ ~IsSome(Val(stats[session_id].last_location).longitude)
       \/ ~IsSome(location_data.latitude)
       \/ ~IsSome(location_data.longitude)

update_location_stats(stats, session_id, location_data, t) ==
    LET st0 == IF session_id \in DOMAIN stats THEN stats[session_id]
               ELSE NewStats(location_data)
        prev == Val(st0.last_location)
        dist == IF st0.total_updates > 0
                THEN AddDistance(st0.total_distance,
                                 calculate_distance(Val(prev.latitude), Val(prev.longitude),
                                                    Val(location_data.latitude),
                                                    Val(location_data.longitude)))
                ELSE st0.total_distance
        count == st0.total_updates + 1
        avg == IF Truthy(location_data.accuracy)
               THEN RunningMean(st0.average_accuracy, count, Val(location_data.accuracy))
               ELSE st0.average_accuracy
    IN  Put(stats, session_id,
            [first_location |-> st0.first_location,
             last_location |-> Some(location_data),
             total_distance |-> dist,
             total_updates |-> count,
             average_accuracy |-> avg,
             speed_records |-> TrackSpeed(st0.speed_records, location_data, t)])

(***************************************************************************)
(* Initial state: the module globals after import                         *)
(***************************************************************************)
\* A coordinates dict: either key may be absent.
Coordinates(lat, lng) == [latitude |-> lat, longitude |-> lng]

\* The destination the server starts with.
DefaultDestination ==
    [name |-> "Default Destination",
     coordinates |-> Some(Coordinates(Some(DefaultLatitude), Some(DefaultLongitude))),
     address |-> "Default Address",
     instructions |-> "Default Instructions",
     updated_at |-> None]

\* The worker threads of the development server (app.run serves each
\* request in a thread of its own).
ThreadIds == {"T1", "T2"}

\* A thread that handles no request.
IdleThread == [pc |-> "idle"]

NoResponse == [op |-> "none", status |-> 0]

Init ==
    /\ navigation_sessions = EmptyDict
    /\ completed_steps = <<>>
    /\ location_history = EmptyDict
    /\ location_stats = EmptyDict
    /\ api_request_logs = 0
    /\ last_location_update = EmptyDict
    /\ location_update_counts = EmptyDict
    /\ CURRENT_DESTINATION = DefaultDestination
    /\ gps_navigation_sessions = EmptyDict
    /\ gps_completed_steps = <<>>
    /\ now = 0
    /\ response = NoResponse
    /\ server \in {"app.py", "gps.py"}
    /\ appended = EmptyDict
    /\ threads = [t \in ThreadIds |-> IdleThread]

\* A run of src/app.py.
InitApp == Init /\ server = "app.py"

\* Time passes between two requests.
Tick ==
    /\ now' = now + 1
    /\ UNCHANGED <<appVars, gpsVars, response, server, threads>>

\* A client waits out a whole throttle window.
WaitThrottle ==
    /\ now' = now + LOCATION_UPDATE_THROTTLE
    /\ UNCHANGED <<appVars, gpsVars, response, server, threads>>

(***************************************************************************)
(* POST /api/location/update                                               *)
(***************************************************************************)
\* A tracker that files every request under one session id.
SessionIdOr_Shared(data) == "anonymous"

\* data.get('session_id', 'anonymous')
SessionIdOr(data) ==
    IF IsSome(data.session_id) THEN Val(data.session_id) ELSE "anonymous"

\* "not location_data or 'latitude' not in location_data or 'longitude' not in
\* location_data"
InvalidLocation(location) ==
    \/ ~IsSome(location)
    \/ ~IsSome(Val(location).latitude)
    \/ ~IsSome(Val(location).longitude)

\* A throttle test that also turns away an update exactly
\* LOCATION_UPDATE_THROTTLE seconds after the previous one.
Throttled_Inclusive(last, session_id, current_time) ==
    /\ session_id \in DOMAIN last
    /\ current_time - last[session_id] <= LOCATION_UPDATE_THROTTLE

\* The throttle test: a previous update of the session is on record and less
\* than LOCATION_UPDATE_THROTTLE seconds old.
Throttled(last, session_id, current_time) ==
    /\ session_id \in DOMAIN last
    /\ current_time - last[session_id] < LOCATION_UPDATE_THROTTLE

\* A trim that slices from the wrong end, [:200], and keeps the oldest 200.
StoreLocation_KeepsOldest(history, location_record) ==
    LET h == Append(history, location_record)
    IN  IF Len(h) > MaxLocationHistory THEN SubSeq(h, 1, MaxLocationHistory) ELSE h

\* location_history[session_id] after "append, then keep the last 200".
StoreLocation(history, location_record) ==
    LET h == Append(history, location_record)
    IN  IF Len(h) > MaxLocationHistory THEN LastN(h, MaxLocationHistory) ELSE h

\* The best-effort distance to the destination: None when the computation
\* raises (coordinates missing or malformed).
DistanceToDestination(location_data, destination) ==
    IF /\ IsSome(destination.coordinates)
       /\ IsSome(Val(destination.coordinates).latitude)
       /\ IsSome(Val(destination.coordinates).longitude)
    THEN Some(calculate_distance(Val(location_data.latitude),
                                 Val(location_data.longitude),
                                 Val(Val(destination.coordinates).latitude),
                                 Val(Val(destination.coordinates).longitude)))
    ELSE None

\* How update_location ends:
\*   "400"         line 184: no location, or no latitude / longitude;
\*   "429"         line 197: throttled;
\*   "500-unbound" line 216: time_since_last is read but was never assigned,
\*                 because the session had no previous update (UnboundLocalError);
\*   "500-stats"   line 227: update_location_stats raises;
\*   "500-round"   line 265: the distance to the destination is nan, and
\*                 round(nan) raises ValueError outside the inner try;
\*   "200"         line 269.
UpdateLocationOutcome(data) ==
    LET session_id == SessionIdOr(data)
    IN  IF InvalidLocation(data.location) THEN "400"
        ELSE IF Throttled(last_location_update, session_id, now) THEN "429"
        ELSE IF session_id \notin DOMAIN last_location_update THEN "500-unbound"
        ELSE IF StatsRaises(location_stats, session_id, Val(data.location)) THEN "500-stats"
        ELSE IF DistanceToDestination(Val(data.location), CURRENT_DESTINATION) = Some(NaN)
             THEN "500-round"
        ELSE "200"

\* A handler that writes the timestamp and the counter before the throttle
\* test.
ReachesStamp_BeforeThrottle(outcome) == outcome /= "400"

\* The handler reaches lines 204-205, where it writes the timestamp and the
\* counter: it returned neither 400 nor 429 before.
ReachesStamp(outcome) == outcome \notin {"400", "429"}

update_location(data) ==
    LET session_id == SessionIdOr(data)
        outcome == UpdateLocationOutcome(data)
        location_data == Val(data.location)
        time_since_last == now - last_location_update[session_id]
        update_count == Get(location_update_counts, session_id, 0) + 1
        location_record ==
            [session_id |-> session_id,
             location |-> location_data,
             timestamp |-> IF IsSome(data.timestamp) THEN Val(data.timestamp) ELSE now,
             server_received_at |-> now,
             update_count |-> Some(update_count),
             time_since_last |-> Some(time_since_last),
             bulk_update |-> FALSE]
        stored == outcome \in {"500-stats", "500-round", "200"}
        stats == update_location_stats(location_stats, session_id, location_data, now)
    IN  /\ last_location_update' =
            IF ReachesStamp(outcome) THEN Put(last_location_update, session_id, now)
            ELSE last_location_update
        /\ location_update_counts' =
            IF ReachesStamp(outcome)
            THEN Put(location_update_counts, session_id, update_count)
            ELSE location_update_counts
        /\ location_history' =
            IF stored
            THEN Put(location_history, session_id,
                     StoreLocation(Get(location_history, session_id, <<>>), location_record))
            ELSE location_history
        /\ appended' =
            IF stored
            THEN Put(appended, session_id,
                     Append(Get(appended, session_id, <<>>), location_record))
            ELSE appended
        /\ location_stats' =
            IF outcome \in {"500-round", "200"} THEN stats ELSE location_stats
        /\ api_request_logs' =
            IF outcome = "429" THEN api_request_logs
            ELSE log_api_request(api_request_logs)
        /\ response' =
            CASE outcome = "400" ->
                    [op |-> "update_location", status |-> 400]
              [] outcome = "429" ->
                    [op |-> "update_location", status |-> 429,
                     session_id |-> session_id,
                     throttle_remaining |-> LOCATION_UPDATE_THROTTLE - time_since_last]
              [] outcome \in {"500-unbound", "500-stats", "500-round"} ->
                    [op |-> "update_location", status |-> 500,
                     session_id |-> session_id]
              [] outcome = "200" ->
                    [op |-> "update_location", status |-> 200,
                     session_id |-> session_id,
                     received_at |-> now,
                     update_count |-> update_count,
                     total_updates |-> stats[session_id].total_updates,
                     total_distance |-> stats[session_id].total_distance,
                     distance_to_destination |->
                         DistanceToDestination(location_data, CURRENT_DESTINATION)]
        /\ UNCHANGED <<navVars, CURRENT_DESTINATION, gpsVars, now, server, threads>>

(***************************************************************************)
(* POST /api/location/bulk-update                                          *)
(***************************************************************************)
BulkRecord(session_id, loc_data, t) ==
    [session_id |-> session_id,
     location |-> Val(loc_data.location),
     timestamp |-> IF IsSome(loc_data.timestamp) THEN Val(loc_data.timestamp) ELSE t,
     server_received_at |-> t,
     update_count |-> None,
     time_since_last |-> None,
     bulk_update |-> TRUE]

\* A bulk loop that puts each sample in front of the history, insert(0, ...).
AppendSample_InFront(history, location_record) == <<location_record>> \o history

\* location_history[session_id].append(location_record), line 324.
AppendSample(history, location_record) == Append(history, location_record)

\* The loop of lines 314-326 over locations[i..]: acc holds the history and
\* the appended records of the session, the stats dict, the processed count,
\* and whether update_location_stats raised (which ends the loop).
RECURSIVE BulkLoop(_, _, _, _, _)
BulkLoop(acc, session_id, locations, i, t) ==
    IF i > Len(locations) \/ acc.raised THEN acc
    ELSE LET loc_data == locations[i]
         IN  IF ~IsSome(loc_data.location)
             THEN BulkLoop(acc, session_id, locations, i + 1, t)
             ELSE LET rec == BulkRecord(session_id, loc_data, t)
                      raises == StatsRaises(acc.stats, session_id, Val(loc_data.location))
                  IN  BulkLoop(
                        [history |-> AppendSample(acc.history, rec),
                         appended |-> Append(acc.appended, rec),
                         stats |-> IF raises THEN acc.stats
                                   ELSE update_location_stats(acc.stats, session_id,
                                                              Val(loc_data.location), t),
                         processed_count |-> IF raises THEN acc.processed_count
                                             ELSE acc.processed_count + 1,
                         raised |-> raises],
                        session_id, locations, i + 1, t)

\* A batch limit that lets a batch of 51 through.
BulkTooLong_OffByOne(locations) == Len(locations) > MaxBulkLocations + 1

\* "len(locations) > 50": the whole batch is rejected.
BulkTooLong(locations) == Len(locations) > MaxBulkLocations

\* A bulk handler that sends the first sample down the single-ingest path,
\* throttle included.
bulk_update_location_AsIngest(data) ==
    update_location([session_id |-> data.session_id,
                     location |-> IF IsSome(data.locations) /\ Len(Val(data.locations)) > 0
                                  THEN Val(data.locations)[1].location ELSE None,
                     timestamp |-> None])

bulk_update_location(data) ==
    LET session_id == SessionIdOr(data)
        missing == ~IsSome(data.locations)
        locations == Val(data.locations)
        rejected == missing \/ BulkTooLong(locations)
        start == [history |-> Get(location_history, session_id, <<>>),
                  appended |-> Get(appended, session_id, <<>>),
                  stats |-> location_stats,
                  processed_count |-> 0,
                  raised |-> FALSE]
        end == BulkLoop(start, session_id, locations, 1, now)
        touched == end.processed_count > 0 \/ end.raised
    IN  /\ location_history' =
            IF rejected \/ ~touched THEN location_history
            ELSE Put(location_history, session_id, end.history)
        /\ appended' =
            IF rejected \/ ~touched THEN appended
            ELSE Put(appended, session_id, end.appended)
        /\ location_stats' = IF rejected THEN location_stats ELSE end.stats
        /\ api_request_logs' =
            IF rejected THEN api_request_logs ELSE log_api_request(api_request_logs)
        /\ response' =
            IF rejected
            THEN [op |-> "bulk_update_location", status |-> 400,
                  error |-> IF missing THEN "locations array required"
                            ELSE "Maximum 50 locations per bulk update"]
            ELSE IF end.raised
                 THEN [op |-> "bulk_update_location", status |-> 500]
                 ELSE [op |-> "bulk_update_location", status |-> 200,
                       session_id |-> session_id,
                       processed_count |-> end.processed_count]
        /\ UNCHANGED <<last_location_update, location_update_counts, navVars,
                       CURRENT_DESTINATION, gpsVars, now, server, threads>>

(***************************************************************************)
(* The location handlers, statement by statement                           *)
(***************************************************************************)
\* app.run serves every request in a thread of its own and the module takes no
\* lock, so a handler may be suspended between two accesses to the module
\* globals.  The steps below cut update_location and bulk_update_location at
\* the accesses that matter: between the throttle test and the write of the
\* timestamp, and between the load and the store of
\* stats["total_updates"] += 1.  threads[t] holds the locals of the handler
\* that thread t runs.

\* update_location_stats, lines 59-81: the stats dict is created when absent,
\* the leg from the last location is added, the last location is replaced.
StatsUntilCount(stats, session_id, location_data) ==
    LET st0 == IF session_id \in DOMAIN stats THEN stats[session_id]
               ELSE NewStats(location_data)
        prev == Val(st0.last_location)
        dist == IF st0.total_updates > 0
                THEN AddDistance(st0.total_distance,
                                 calculate_distance(Val(prev.latitude), Val(prev.longitude),
                                                    Val(location_data.latitude),
                                                    Val(location_data.longitude)))
                ELSE st0.total_distance
    IN  Put(stats, session_id,
            [st0 EXCEPT !.last_location = Some(location_data),
                        !.total_distance = dist])

\* update_location_stats, lines 82-98, from the store of
\* stats["total_updates"] += 1 on: loaded is the value the += read.
StatsFromCount(stats, session_id, location_data, loaded, t) ==
    LET st0 == stats[session_id]
        count == loaded + 1
        avg == IF Truthy(location_data.accuracy)
               THEN RunningMean(st0.average_accuracy, count, Val(location_data.accuracy))
               ELSE st0.average_accuracy
    IN  Put(stats, session_id,
            [st0 EXCEPT !.total_updates = count,
                        !.average_accuracy = avg,
                        !.speed_records = TrackSpeed(st0.speed_records, location_data, t)])

\* The handler of thread t has returned.
Returned(t) == threads' = [threads EXCEPT ![t] = IdleThread]

\* update_location, lines 166-202: the request is validated and put to the
\* throttle test; one that passes goes on with current_time and, when the
\* session has a previous update, time_since_last.
BeginUpdate(t, data) ==
    LET session_id == SessionIdOr(data)
    IN  /\ threads[t].pc = "idle"
        /\ IF InvalidLocation(data.location)
           THEN /\ api_request_logs' = log_api_request(api_request_logs)
                /\ response' = [op |-> "update_location", status |-> 400]
                /\ UNCHANGED threads
           ELSE IF Throttled(last_location_update, session_id, now)
           THEN /\ response' =
                      [op |-> "update_location", status |-> 429,
                       session_id |-> session_id,
                       throttle_remaining |->
                           LOCATION_UPDATE_THROTTLE - (now - last_location_update[session_id])]
                /\ UNCHANGED <<api_request_logs, threads>>
           ELSE /\ threads' =
                      [threads EXCEPT ![t] =
                          [pc |-> "admitted",
                           data |-> data,
                           current_time |-> now,
                           time_since_last |->
                               IF session_id \in DOMAIN last_location_update
                               THEN Some(now - last_location_update[session_id])
                               ELSE None]]
                /\ UNCHANGED <<api_request_logs, response>>
        /\ UNCHANGED <<location_history, location_stats, last_location_update,
                       location_update_counts, appended, navVars,
                       CURRENT_DESTINATION, gpsVars, now, server>>

\* update_location, lines 204-227 up to the load of stats["total_updates"]:
\* the timestamp and the counter are written, the record is built (which
\* raises when time_since_last was never assigned), appended and trimmed, and
\* update_location_stats runs up to its += 1.
StoreUpdate(t) ==
    LET th == threads[t]
        session_id == SessionIdOr(th.data)
        location_data == Val(th.data.location)
        update_count == Get(location_update_counts, session_id, 0) + 1
        unbound == ~IsSome(th.time_since_last)
        location_record ==
            [session_id |-> session_id,
             location |-> location_data,
             timestamp |-> IF IsSome(th.data.timestamp) THEN Val(th.data.timestamp)
                           ELSE now,
             server_received_at |-> now,
             update_count |-> Some(update_count),
             time_since_last |-> th.time_since_last,
             bulk_update |-> FALSE]
        raises == StatsRaises(location_stats, session_id, location_data)
        stats == StatsUntilCount(location_stats, session_id, location_data)
    IN  /\ th.pc = "admitted"
        /\ last_location_update' = Put(last_location_update, session_id, th.current_time)
        /\ location_update_counts' = Put(location_update_counts, session_id, update_count)
        /\ location_history' =
            IF unbound THEN location_history
            ELSE Put(location_history, session_id,
                     StoreLocation(Get(location_history, session_id, <<>>), location_record))
        /\ appended' =
            IF unbound THEN appended
            ELSE Put(appended, session_id,
                     Append(Get(appended, session_id, <<>>), location_record))
        /\ IF unbound \/ raises
           THEN /\ api_request_logs' = log_api_request(api_request_logs)
                /\ response' = [op |-> "update_location", status |-> 500,
                                session_id |-> session_id]
                /\ Returned(t)
                /\ UNCHANGED location_stats
           ELSE /\ location_stats' = stats
                /\ threads' = [threads EXCEPT ![t] =
                                  [th EXCEPT !.pc = "counting"] @@
                                  [update_count |-> update_count,
                                   loaded |-> stats[session_id].total_updates]]
                /\ UNCHANGED <<api_request_logs, response>>
        /\ UNCHANGED <<navVars, CURRENT_DESTINATION, gpsVars, now, server>>

\* update_location, from the store of stats["total_updates"] to the return:
\* the rest of update_location_stats, the distance to the destination, the log
\* entry and the response.
FinishUpdate(t) ==
    LET th == threads[t]
        session_id == SessionIdOr(th.data)
        location_data == Val(th.data.location)
        stats == StatsFromCount(location_stats, session_id, location_data, th.loaded, now)
        distance == DistanceToDestination(location_data, CURRENT_DESTINATION)
    IN  /\ th.pc = "counting"
        /\ location_stats' = stats
        /\ api_request_logs' = log_api_request(api_request_logs)
        /\ response' =
            IF distance = Some(NaN)
            THEN [op |-> "update_location", status |-> 500, session_id |-> session_id]
            ELSE [op |-> "update_location", status |-> 200,
                  session_id |-> session_id,
                  received_at |-> now,
                  update_count |-> th.update_count,
                  total_updates |-> stats[session_id].total_updates,
                  total_distance |-> stats[session_id].total_distance,
                  distance_to_destination |-> distance]
        /\ Returned(t)
        /\ UNCHANGED <<location_history, appended, last_location_update,
                       location_update_counts, navVars, CURRENT_DESTINATION,
                       gpsVars, now, server>>

\* bulk_update_location, lines 296-313: the batch is validated and the loop
\* starts at its first sample.
BeginBulk(t, data) ==
    LET missing == ~IsSome(data.locations)
        rejected == missing \/ BulkTooLong(Val(data.locations))
    IN  /\ threads[t].pc = "idle"
        /\ IF rejected
           THEN /\ response' =
                      [op |-> "bulk_update_location", status |-> 400,
                       error |-> IF missing THEN "locations array required"
                                 ELSE "Maximum 50 locations per bulk update"]
                /\ UNCHANGED threads
           ELSE /\ threads' = [threads EXCEPT ![t] =
                                  [pc |-> "looping", data |-> data, i |-> 1,
                                   processed_count |-> 0]]
                /\ UNCHANGED response
        /\ UNCHANGED <<location_history, location_stats, api_request_logs,
                       last_location_update, location_update_counts, appended,
                       navVars, CURRENT_DESTINATION, gpsVars, now, server>>

\* bulk_update_location, lines 314-325 up to the load of
\* stats["total_updates"]: sample i is appended and update_location_stats runs
\* up to its += 1; a sample without a location is passed over.
StoreSample(t) ==
    LET th == threads[t]
        session_id == SessionIdOr(th.data)
        loc_data == Val(th.data.locations)[th.i]
        location_data == Val(loc_data.location)
        rec == BulkRecord(session_id, loc_data, now)
        raises == StatsRaises(location_stats, session_id, location_data)
        stats == StatsUntilCount(location_stats, session_id, location_data)
    IN  /\ th.pc = "looping"
        /\ th.i <= Len(Val(th.data.locations))
        /\ IF ~IsSome(loc_data.location)
           THEN /\ threads' = [threads EXCEPT ![t].i = th.i + 1]
                /\ UNCHANGED <<location_history, appended, location_stats,
                               api_request_logs, response>>
           ELSE /\ location_history' =
                      Put(location_history, session_id,
                          AppendSample(Get(location_history, session_id, <<>>), rec))
                /\ appended' =
                      Put(appended, session_id,
                          Append(Get(appended, session_id, <<>>), rec))
                /\ IF raises
                   THEN /\ api_request_logs' = log_api_request(api_request_logs)
                        /\ response' = [op |-> "bulk_update_location", status |-> 500]
                        /\ Returned(t)
                        /\ UNCHANGED location_stats
                   ELSE /\ location_stats' = stats
                        /\ threads' = [threads EXCEPT ![t] =
                                          [th EXCEPT !.pc = "counting sample"] @@
                                          [loaded |-> stats[session_id].total_updates]]
                        /\ UNCHANGED <<api_request_logs, response>>
        /\ UNCHANGED <<last_location_update, location_update_counts, navVars,
                       CURRENT_DESTINATION, gpsVars, now, server>>

\* bulk_update_location, from the store of stats["total_updates"] to the end
\* of the loop body, line 326.
CountSample(t) ==
    LET th == threads[t]
        session_id == SessionIdOr(th.data)
        location_data == Val(Val(th.data.locations)[th.i].location)
    IN  /\ th.pc = "counting sample"
        /\ location_stats' =
              StatsFromCount(location_stats, session_id, location_data, th.loaded, now)
        /\ threads' = [threads EXCEPT ![t] =
                          [pc |-> "looping", data |-> th.data, i |-> th.i + 1,
                           processed_count |-> th.processed_count + 1]]
        /\ UNCHANGED <<location_history, appended, api_request_logs, response,
                       last_location_update, location_update_counts, navVars,
                       CURRENT_DESTINATION, gpsVars, now, server>>

\* bulk_update_location, lines 328-339: the loop is over.
FinishBulk(t) ==
    LET th == threads[t]
    IN  /\ th.pc = "looping"
        /\ th.i > Len(Val(th.data.locations))
        /\ api_request_logs' = log_api_request(api_request_logs)
        /\ response' = [op |-> "bulk_update_location", status |-> 200,
                        session_id |-> SessionIdOr(th.data),
                        processed_count |-> th.processed_count]
        /\ Returned(t)
        /\ UNCHANGED <<location_history, appended, location_stats,
                       last_location_update, location_update_counts, navVars,
                       CURRENT_DESTINATION, gpsVars, now, server>>

(***************************************************************************)
(* GET /api/destination                                                    *)
(***************************************************************************)
\* A parser that reads a lone latitude and takes the default longitude.
ParseUserLocation_PadsMissing(fields) ==
    IF Len(fields) >= 1 /\ IsSome(fields[1])
    THEN Some(Location(fields[1],
                       IF Len(fields) >= 2 /\ IsSome(fields[2]) THEN fields[2]
                       ELSE Some(DefaultLongitude),
                       None, None))
    ELSE None

\* user_location is the query parameter "lat,lng" split at its commas: a
\* sequence of fields, Some(n) for a field that float() reads as n, None for
\* one it rejects.  "lat, lng = map(float, ...)" raises unless there are
\* exactly two fields and both are numbers; the result is None then.
ParseUserLocation(fields) ==
    IF Len(fields) = 2 /\ IsSome(fields[1]) /\ IsSome(fields[2])
    THEN Some(Location(fields[1], fields[2], None, None))
    ELSE None

\* max(5, int(distance * 3)) for a distance given in metres: int() drops the
\* fraction.
CalculatedTime(distance) ==
    LET minutes == (distance * 3) \div 1000
    IN  IF minutes > 5 THEN minutes ELSE 5

\* How get_current_destination ends:
\*   "400"  line 111: user_location missing or empty;
\*   "200"  line 138, without the calculated fields when the inner try
\*          (lines 120-131) raised.  For a nan distance it raises at line
\*          128, int(nan), after calculated_distance was set at line 127.
get_current_destination(user_location) ==
    LET parsed == ParseUserLocation(Val(user_location))
        distance == IF IsSome(parsed)
                    THEN DistanceToDestination(Val(parsed), CURRENT_DESTINATION)
                    ELSE None
    IN  /\ api_request_logs' = log_api_request(api_request_logs)
        /\ response' =
            IF ~IsSome(user_location)
            THEN [op |-> "get_current_destination", status |-> 400]
            ELSE [op |-> "get_current_destination", status |-> 200,
                  destination |-> CURRENT_DESTINATION,
                  calculated_distance |->
                      IF ~IsSome(distance) THEN None
                      ELSE IF distance = Some(NaN) THEN Some(NaN)
                      ELSE Some(RoundTenths(Val(distance), 1000)),
                  calculated_time |->
                      IF IsSome(distance) /\ distance /= Some(NaN)
                      THEN Some(CalculatedTime(Val(distance))) ELSE None,
                  distance_meters |->
                      IF distance = Some(NaN) THEN None ELSE distance]
        /\ UNCHANGED <<navVars, locVars, CURRENT_DESTINATION, gpsVars, now, server, threads>>

(***************************************************************************)
(* POST /api/destination/update                                            *)
(***************************************************************************)
\* data: each of name, coordinates, address, instructions is an option (the
\* key may be absent); "not data" holds of the empty dict.
EmptyDestinationUpdate(data) ==
    /\ ~IsSome(data.name)
    /\ ~IsSome(data.coordinates)
    /\ ~IsSome(data.address)
    /\ ~IsSome(data.instructions)

\* Lines 523-532: only the keys present are applied.
ApplyDestinationUpdate(destination, data, t) ==
    [name |-> IF IsSome(data.name) THEN Val(data.name) ELSE destination.name,
     coordinates |-> IF IsSome(data.coordinates) THEN Val(data.coordinates)
                     ELSE destination.coordinates,
     address |-> IF IsSome(data.address) THEN Val(data.address)
                 ELSE destination.address,
     instructions |-> IF IsSome(data.instructions) THEN Val(data.instructions)
                      ELSE destination.instructions,
     updated_at |-> Some(t)]

\* An update seen by sessions that hold CURRENT_DESTINATION itself, not a
\* copy of it: every stored destination changes with it.
update_destination_SharedDict(data) ==
    /\ CURRENT_DESTINATION' =
        IF EmptyDestinationUpdate(data) THEN CURRENT_DESTINATION
        ELSE ApplyDestinationUpdate(CURRENT_DESTINATION, data, now)
    /\ navigation_sessions' =
        [s \in DOMAIN navigation_sessions |->
            [navigation_sessions[s] EXCEPT !.destination = CURRENT_DESTINATION']]
    /\ api_request_logs' =
        IF EmptyDestinationUpdate(data) THEN api_request_logs
        ELSE log_api_request(api_request_logs)
    /\ response' =
        IF EmptyDestinationUpdate(data)
        THEN [op |-> "update_destination", status |-> 400]
        ELSE [op |-> "update_destination", status |-> 200,
              destination |-> CURRENT_DESTINATION']
    /\ UNCHANGED <<completed_steps, locVars, gpsVars, now, server, threads>>

update_destination(data) ==
    /\ CURRENT_DESTINATION' =
        IF EmptyDestinationUpdate(data) THEN CURRENT_DESTINATION
        ELSE ApplyDestinationUpdate(CURRENT_DESTINATION, data, now)
    /\ api_request_logs' =
        IF EmptyDestinationUpdate(data) THEN api_request_logs
        ELSE log_api_request(api_request_logs)
    /\ response' =
        IF EmptyDestinationUpdate(data)
        THEN [op |-> "update_destination", status |-> 400]
        ELSE [op |-> "update_destination", status |-> 200,
              destination |-> CURRENT_DESTINATION']
    /\ UNCHANGED <<navVars, locVars, gpsVars, now, server, threads>>

(***************************************************************************)
(* POST /api/navigation/start  (app.py)                                    *)
(***************************************************************************)
\* A start that stores the destination the server began with instead of the
\* current one.
NewSession_StaleDestination(session_id, data, destination, t) ==
    [session_id |-> session_id,
     destination |-> DefaultDestination,
     total_steps |-> data.total_steps,
     started_at |-> t,
     completed_steps |-> 0,
     status |-> "active",
     location_tracking_enabled |-> TRUE,
     last_update |-> None,
     completed_at |-> None,
     final_location |-> None,
     actual_total_time |-> None,
     actual_distance_traveled |-> None]

\* The session dict of lines 582-594.  The keys that step_completed and
\* navigation_complete add later (last_update, completed_at, final_location,
\* actual_total_time, actual_distance_traveled) are None while absent.  The
\* request fields user_location, total_distance and total_duration are copied
\* like total_steps and are left out.
NewSession(session_id, data, destination, t) ==
    [session_id |-> session_id,
     destination |-> destination,
     total_steps |-> data.total_steps,
     started_at |-> t,
     completed_steps |-> 0,
     status |-> "active",
     location_tracking_enabled |-> TRUE,
     last_update |-> None,
     completed_at |-> None,
     final_location |-> None,
     actual_total_time |-> None,
     actual_distance_traveled |-> None]

\* The stats dict of lines 602-607: no first_location, no last_location.
InitialStats ==
    [first_location |-> None,
     last_location |-> None,
     total_distance |-> 0,
     total_updates |-> 0,
     average_accuracy |-> Frac(0, 1),
     speed_records |-> <<>>]

start_navigation(data) ==
    LET bad == ~IsSome(data.session_id)
        session_id == Val(data.session_id)
    IN  /\ navigation_sessions' =
            IF bad THEN navigation_sessions
            ELSE Put(navigation_sessions, session_id,
                     NewSession(session_id, data, CURRENT_DESTINATION, now))
        /\ location_history' =
            IF bad \/ session_id \in DOMAIN location_history THEN location_history
            ELSE Put(location_history, session_id, <<>>)
        /\ location_stats' =
            IF bad \/ session_id \in DOMAIN location_stats THEN location_stats
            ELSE Put(location_stats, session_id, InitialStats)
        /\ api_request_logs' =
            IF bad THEN api_request_logs ELSE log_api_request(api_request_logs)
        /\ response' =
            IF bad THEN [op |-> "start_navigation", status |-> 400]
            ELSE [op |-> "start_navigation", status |-> 200,
                  session_id |-> session_id,
                  destination_name |-> CURRENT_DESTINATION.name,
                  location_tracking_enabled |-> TRUE]
        /\ UNCHANGED <<completed_steps, last_location_update, location_update_counts,
                       appended, CURRENT_DESTINATION, gpsVars, now, server, threads>>

(***************************************************************************)
(* POST /api/navigation/step-completed  (app.py)                           *)
(***************************************************************************)
\* A percentage computed from step_index instead of step_index + 1.
ProgressPercentage_OffByOne(step_index, total_steps) ==
    RoundTenths(step_index * 100, total_steps)

\* ((step_index + 1) / total_steps) * 100, rounded to one decimal.
ProgressPercentage(step_index, total_steps) ==
    RoundTenths((step_index + 1) * 100, total_steps)

StepsRemaining(step_index, total_steps) == total_steps - (step_index + 1)

\* An announcement that tests steps_remaining >= 0.
VoiceAnnouncement_AtLeast(steps_remaining, destination_name) ==
    IF steps_remaining >= 0
    THEN [text |-> "Step completed. {steps_remaining} steps remaining to {destination_name}.",
          steps_remaining |-> Some(steps_remaining),
          destination_name |-> destination_name]
    ELSE [text |-> "Final step completed. You have arrived at {destination_name}.",
          steps_remaining |-> None,
          destination_name |-> destination_name]

\* Lines 717-720.
VoiceAnnouncement(steps_remaining, destination_name) ==
    IF steps_remaining > 0
    THEN [text |-> "Step completed. {steps_remaining} steps remaining to {destination_name}.",
          steps_remaining |-> Some(steps_remaining),
          destination_name |-> destination_name]
    ELSE [text |-> "Final step completed. You have arrived at {destination_name}.",
          steps_remaining |-> None,
          destination_name |-> destination_name]

\* "not all([session_id, step_index is not None, step_instruction,
\* current_location])"
StepFieldsMissing(data) ==
    \/ ~IsSome(data.session_id)
    \/ ~IsSome(data.step_index)
    \/ ~IsSome(data.step_instruction)
    \/ ~IsSome(data.current_location)

StepRecord(data, t) ==
    [session_id |-> Val(data.session_id),
     step_index |-> Val(data.step_index),
     step_instruction |-> Val(data.step_instruction),
     current_location |-> Val(data.current_location),
     completion_time |-> t,
     accuracy |-> data.accuracy]

\* A count that keeps the highest step reported so far.
CompletedCount_Highest(session, step_index) ==
    IF session.completed_steps > step_index + 1 THEN session.completed_steps
    ELSE step_index + 1

\* navigation_sessions[session_id]['completed_steps'] = step_index + 1,
\* line 696: the old count is not read.
CompletedCount(session, step_index) == step_index + 1

\* A step completion that also writes the status it reports, "active".
RecordProgress_Reactivates(session, step_index, t) ==
    [session EXCEPT !.completed_steps = step_index + 1, !.last_update = Some(t),
                    !.status = "active"]

\* The session after lines 696-697.
RecordProgress(session, step_index, t) ==
    [session EXCEPT !.completed_steps = CompletedCount(session, step_index),
                    !.last_update = Some(t)]

\* How step_completed ends, given the sessions dict:
\*   "400"          line 667: a required field is missing;
\*   "404"          line 674: unknown session;
\*   "500-location" line 706: current_location has no latitude / longitude;
\*   "500-total"    line 713: total_steps is None (TypeError) or 0
\*                  (ZeroDivisionError);
\*   "200"          line 724.
StepCompletedOutcome(sessions, data) ==
    IF StepFieldsMissing(data) THEN "400"
    ELSE IF Val(data.session_id) \notin DOMAIN sessions THEN "404"
    ELSE IF \/ ~IsSome(Val(data.current_location).latitude)
            \/ ~IsSome(Val(data.current_location).longitude) THEN "500-location"
    ELSE IF \/ ~IsSome(sessions[Val(data.session_id)].total_steps)
            \/ Val(sessions[Val(data.session_id)].total_steps) = 0 THEN "500-total"
    ELSE "200"

step_completed(data) ==
    LET outcome == StepCompletedOutcome(navigation_sessions, data)
        session_id == Val(data.session_id)
        step_index == Val(data.step_index)
        recorded == outcome \in {"500-location", "500-total", "200"}
        session == navigation_sessions[session_id]
        total_steps == Val(session.total_steps)
        steps_remaining == StepsRemaining(step_index, total_steps)
    IN  /\ completed_steps' =
            IF recorded THEN Append(completed_steps, StepRecord(data, now))
            ELSE completed_steps
        /\ navigation_sessions' =
            IF recorded
            THEN Put(navigation_sessions, session_id,
                     RecordProgress(session, step_index, now))
            ELSE navigation_sessions
        /\ api_request_logs' =
            IF recorded THEN log_api_request(api_request_logs) ELSE api_request_logs
        /\ response' =
            CASE outcome = "400" -> [op |-> "step_completed", status |-> 400]
              [] outcome = "404" -> [op |-> "step_completed", status |-> 404]
              [] outcome \in {"500-location", "500-total"} ->
                    [op |-> "step_completed", status |-> 500,
                     session_id |-> session_id]
              [] outcome = "200" ->
                    [op |-> "step_completed", status |-> 200,
                     session_id |-> session_id,
                     step_index |-> step_index,
                     destination_name |-> session.destination.name,
                     completed_steps |-> step_index + 1,
                     total_steps |-> total_steps,
                     percentage |-> ProgressPercentage(step_index, total_steps),
                     steps_remaining |-> steps_remaining,
                     voice_announcement |->
                         VoiceAnnouncement(steps_remaining, session.destination.name),
                     session_status |-> "active"]
        /\ UNCHANGED <<locVars, CURRENT_DESTINATION, gpsVars, now, server, threads>>

(***************************************************************************)
(* POST /api/navigation/complete  (app.py)                                 *)
(***************************************************************************)
\* A completion that leaves an already completed session as it is.
CompleteSession_KeepsFirst(session, data, t) ==
    IF session.status = "completed" THEN session
    ELSE [session EXCEPT !.status = "completed",
                         !.completed_at = Some(t),
                         !.final_location = data.final_location,
                         !.actual_total_time = data.total_time,
                         !.actual_distance_traveled = data.total_distance_traveled,
                         !.location_tracking_enabled = FALSE]

\* The session after lines 778-783.
CompleteSession(session, data, t) ==
    [session EXCEPT !.status = "completed",
                    !.completed_at = Some(t),
                    !.final_location = data.final_location,
                    !.actual_total_time = data.total_time,
                    !.actual_distance_traveled = data.total_distance_traveled,
                    !.location_tracking_enabled = FALSE]

\* "not data": the request body is the empty dict.
EmptyCompleteRequest(data) ==
    /\ ~IsSome(data.session_id)
    /\ ~IsSome(data.final_location)
    /\ ~IsSome(data.total_time)
    /\ ~IsSome(data.total_distance_traveled)

navigation_complete(data) ==
    LET bad == \/ ~IsSome(data.session_id)
               \/ Val(data.session_id) \notin DOMAIN navigation_sessions
        session_id == Val(data.session_id)
        session == CompleteSession(navigation_sessions[session_id], data, now)
    IN  /\ navigation_sessions' =
            IF bad THEN navigation_sessions
            ELSE Put(navigation_sessions, session_id, session)
        /\ api_request_logs' =
            IF bad THEN api_request_logs ELSE log_api_request(api_request_logs)
        /\ response' =
            IF EmptyCompleteRequest(data)
            THEN [op |-> "navigation_complete", status |-> 400]
            ELSE IF bad THEN [op |-> "navigation_complete", status |-> 404]
            ELSE [op |-> "navigation_complete", status |-> 200,
                  session_id |-> session_id,
                  destination_name |-> session.destination.name,
                  total_steps_completed |-> session.completed_steps,
                  completed_at |-> session.completed_at,
                  location_updates |-> Get(location_update_counts, session_id, 0),
                  total_distance_tracked |->
                      IF session_id \in DOMAIN location_stats
                      THEN location_stats[session_id].total_distance ELSE 0]
        /\ UNCHANGED <<completed_steps, locVars, CURRENT_DESTINATION, gpsVars, now, server, threads>>

(***************************************************************************)
(* GET /api/navigation/sessions: the aggregate counts                      *)
(***************************************************************************)
\* active_location_tracking_sessions: the sessions whose
\* location_tracking_enabled is true.
ActiveTracking(sessions) ==
    Cardinality({session_id \in DOMAIN sessions :
                    sessions[session_id].location_tracking_enabled})

\* active_sessions and completed_sessions: the sessions of the given status.
SessionsOfStatus(sessions, status) ==
    Cardinality({session_id \in DOMAIN sessions : sessions[session_id].status = status})

\* total_sessions
TotalSessions(sessions) == Cardinality(DOMAIN sessions)

(***************************************************************************)
(* GET /api/navigation/status/<session_id>  (app.py)                       *)
(***************************************************************************)
\* The step records of one session: [step for step in completed_steps if
\* step['session_id'] == session_id].
SessionSteps(steps, session_id) ==
    SelectSeq(steps, LAMBDA step : step.session_id = session_id)

\* The "summary" of the status answer; progress_percentage is the exact
\* quotient, 0 when total_steps is None or 0.
StatusSummary(session, session_steps) ==
    [total_steps |-> session.total_steps,
     completed_steps |-> Len(session_steps),
     progress_percentage |->
         IF Truthy(session.total_steps)
         THEN Frac(Len(session_steps) * 100, Val(session.total_steps))
         ELSE Frac(0, 1),
     status |-> session.status]

\* The answer of get_navigation_status: 404 at line 833, 200 at line 852.
StatusAnswer(session_id) ==
    LET session == navigation_sessions[session_id]
    IN  IF session_id \notin DOMAIN navigation_sessions
        THEN [op |-> "get_navigation_status", status |-> 404]
        ELSE [op |-> "get_navigation_status", status |-> 200,
              session_id |-> session_id,
              session |-> session,
              summary |-> StatusSummary(session,
                                        SessionSteps(completed_steps, session_id)),
              destination |-> session.destination.name,
              total_location_points |-> Len(Get(location_history, session_id, <<>>)),
              update_count |-> Get(location_update_counts, session_id, 0)]

\* A status request that reads location_history[session_id] before it looks
\* the session up: the defaultdict creates the entry.
get_navigation_status_TouchesHistory(session_id) ==
    /\ location_history' =
        IF session_id \in DOMAIN location_history THEN location_history
        ELSE Put(location_history, session_id, <<>>)
    /\ api_request_logs' =
        IF session_id \in DOMAIN navigation_sessions
        THEN log_api_request(api_request_logs) ELSE api_request_logs
    /\ response' = StatusAnswer(session_id)
    /\ UNCHANGED <<navVars, location_stats, last_location_update,
                   location_update_counts, appended, CURRENT_DESTINATION, gpsVars,
                   now, server, threads>>

get_navigation_status(session_id) ==
    /\ api_request_logs' =
        IF session_id \in DOMAIN navigation_sessions
        THEN log_api_request(api_request_logs) ELSE api_request_logs
    /\ response' = StatusAnswer(session_id)
    /\ UNCHANGED <<navVars, locVars, CURRENT_DESTINATION, gpsVars, now, server, threads>>

(***************************************************************************)
(* src/gps.py: the basic server                                            *)
(***************************************************************************)
\* The session dict of gps.py lines 44-54; the destination is the one the
\* request gives.  origin, total_distance and total_duration are copied like
\* total_steps and are left out.
GpsNewSession(session_id, data, t) ==
    [session_id |-> session_id,
     destination |-> data.destination,
     total_steps |-> data.total_steps,
     started_at |-> t,
     completed_steps |-> 0,
     status |-> "active",
     last_update |-> None,
     completed_at |-> None,
     final_location |-> None,
     actual_total_time |-> None,
     actual_distance_traveled |-> None]

gps_start_navigation(data) ==
    LET bad == ~IsSome(data.session_id)
        session_id == Val(data.session_id)
    IN  /\ gps_navigation_sessions' =
            IF bad THEN gps_navigation_sessions
            ELSE Put(gps_navigation_sessions, session_id,
                     GpsNewSession(session_id, data, now))
        /\ response' =
            IF bad THEN [op |-> "gps_start_navigation", status |-> 400]
            ELSE [op |-> "gps_start_navigation", status |-> 200,
                  session_id |-> session_id]
        /\ UNCHANGED <<gps_completed_steps, appVars, now, server, threads>>

gps_step_completed(data) ==
    LET outcome == StepCompletedOutcome(gps_navigation_sessions, data)
        session_id == Val(data.session_id)
        step_index == Val(data.step_index)
        recorded == outcome \in {"500-location", "500-total", "200"}
        session == gps_navigation_sessions[session_id]
        total_steps == Val(session.total_steps)
    IN  /\ gps_completed_steps' =
            IF recorded THEN Append(gps_completed_steps, StepRecord(data, now))
            ELSE gps_completed_steps
        /\ gps_navigation_sessions' =
            IF recorded
            THEN Put(gps_navigation_sessions, session_id,
                     RecordProgress(session, step_index, now))
            ELSE gps_navigation_sessions
        /\ response' =
            CASE outcome = "400" -> [op |-> "gps_step_completed", status |-> 400]
              [] outcome = "404" -> [op |-> "gps_step_completed", status |-> 404]
              [] outcome \in {"500-location", "500-total"} ->
                    [op |-> "gps_step_completed", status |-> 500]
              [] outcome = "200" ->
                    [op |-> "gps_step_completed", status |-> 200,
                     session_id |-> session_id,
                     step_index |-> step_index,
                     completed_steps |-> step_index + 1,
                     total_steps |-> total_steps,
                     percentage |-> ProgressPercentage(step_index, total_steps),
                     session_status |-> "active"]
        /\ UNCHANGED <<appVars, now, server, threads>>

\* The session after gps.py lines 204-208.
GpsCompleteSession(session, data, t) ==
    [session EXCEPT !.status = "completed",
                    !.completed_at = Some(t),
                    !.final_location = data.final_location,
                    !.actual_total_time = data.total_time,
                    !.actual_distance_traveled = data.total_distance_traveled]

gps_navigation_complete(data) ==
    LET outcome == IF ~IsSome(data.session_id) THEN "400"
                   ELSE IF Val(data.session_id) \notin DOMAIN gps_navigation_sessions
                        THEN "404" ELSE "200"
        session_id == Val(data.session_id)
        session == GpsCompleteSession(gps_navigation_sessions[session_id], data, now)
    IN  /\ gps_navigation_sessions' =
            IF outcome = "200" THEN Put(gps_navigation_sessions, session_id, session)
            ELSE gps_navigation_sessions
        /\ response' =
            CASE outcome = "400" -> [op |-> "gps_navigation_complete", status |-> 400]
              [] outcome = "404" -> [op |-> "gps_navigation_complete", status |-> 404]
              [] outcome = "200" ->
                    [op |-> "gps_navigation_complete", status |-> 200,
                     session_id |-> session_id,
                     total_steps_completed |-> session.completed_steps,
                     completed_at |-> session.completed_at]
        /\ UNCHANGED <<gps_completed_steps, appVars, now, server, threads>>

gps_get_navigation_status(session_id) ==
    LET known == session_id \in DOMAIN gps_navigation_sessions
        session == gps_navigation_sessions[session_id]
    IN  /\ response' =
            IF ~known THEN [op |-> "gps_get_navigation_status", status |-> 404]
            ELSE [op |-> "gps_get_navigation_status", status |-> 200,
                  session_id |-> session_id,
                  session |-> session,
                  summary |-> StatusSummary(session,
                                            SessionSteps(gps_completed_steps, session_id))]
        /\ UNCHANGED <<gpsVars, appVars, now, server, threads>>

(***************************************************************************)
(* Requests                                                                *)
(***************************************************************************)
IngestRequest(session_id, location) ==
    [session_id |-> session_id, location |-> location, timestamp |-> None]

Sample(location, timestamp) == [location |-> location, timestamp |-> timestamp]

\* k samples that each carry a location: sample i lies at latitude
\* DefaultLatitude + i % 2 and has client timestamp i.
Batch(k) == [i \in 1..k |-> Sample(Some(Point(DefaultLatitude + (i % 2))), Some(i))]

\* Three samples, the second without a location.
MixedBatch ==
    <<Sample(Some(Point(DefaultLatitude)), Some(1)),
      Sample(None, Some(2)),
      Sample(Some(Point(DefaultLatitude + 1)), None)>>

BulkRequest(session_id, locations) ==
    [session_id |-> session_id, locations |-> locations]

\* destination is read by gps.py only.
StartRequest(session_id, total_steps) ==
    [session_id |-> session_id, total_steps |-> total_steps,
     destination |-> Some(Coordinates(Some(DefaultLatitude), Some(DefaultLongitude)))]

StepRequest(session_id, step_index, step_instruction, current_location) ==
    [session_id |-> session_id, step_index |-> step_index,
     step_instruction |-> step_instruction, current_location |-> current_location,
     accuracy |-> None]

CompleteRequest(session_id, final_location) ==
    [session_id |-> session_id, final_location |-> final_location,
     total_time |-> IF IsSome(final_location) THEN Some("12 min") ELSE None,
     total_distance_traveled |-> IF IsSome(final_location) THEN Some(3) ELSE None]

DestinationUpdate(name, coordinates) ==
    [name |-> name, coordinates |-> coordinates, address |-> None,
     instructions |-> None]

(***************************************************************************)
(* Spec: every operation of both programs, on one session and few requests *)
(***************************************************************************)
\* Requests app.py handles in one run.
MaxRequests == 3

\* Step completions gps.py records in one run.
MaxGpsSteps == 2

\* Seconds the clock runs.
MaxClock == 1

\* total_steps of a started session in Spec.
FewSteps == 2

IngestRequests ==
    {IngestRequest(Some("S1"), l) : l \in {None, Some(Point(DefaultLatitude))}}

BulkRequests ==
    {BulkRequest(Some("S1"), l) : l \in {None, Some(Batch(0)), Some(Batch(2)), Some(Batch(MaxBulkLocations + 1))}}

StartRequests ==
    {StartRequest(None, Some(FewSteps)), StartRequest(Some("S1"), None),
     StartRequest(Some("S1"), Some(0)), StartRequest(Some("S1"), Some(FewSteps))}

StepRequests ==
    {StepRequest(Some("S1"), Some(i), Some("Turn left"), Some(Point(DefaultLatitude))) :
        i \in 0..(FewSteps - 1)}
    \cup {StepRequest(Some("S1"), Some(0), None, Some(Point(DefaultLatitude))),
          StepRequest(Some("S2"), Some(0), Some("Turn left"), Some(Point(DefaultLatitude)))}

CompleteRequests ==
    {CompleteRequest(None, None), CompleteRequest(Some("S1"), Some(Point(DefaultLatitude))),
     CompleteRequest(Some("S2"), None)}

DestinationUpdates ==
    {DestinationUpdate(None, None),
     DestinationUpdate(Some("Cafe"), None),
     DestinationUpdate(None, Some(Some(Coordinates(None, Some(DefaultLongitude))))),
     [DestinationUpdate(None, None) EXCEPT !.address = Some("1 Main Street"),
                                           !.instructions = Some("Ring the bell")]}

\* "S2" is never started.
StatusRequests == {"S1", "S2"}

AppRuns == server = "app.py" /\ api_request_logs < MaxRequests

GpsRuns == server = "gps.py"

Next ==
    \/ now < MaxClock /\ Tick
    \/ \E data \in IngestRequests : AppRuns /\ update_location(data)
    \/ \E data \in BulkRequests : AppRuns /\ bulk_update_location(data)
    \/ \E data \in DestinationUpdates : AppRuns /\ update_destination(data)
    \/ \E data \in StartRequests : AppRuns /\ start_navigation(data)
    \/ \E data \in StepRequests : AppRuns /\ step_completed(data)
    \/ \E data \in CompleteRequests : AppRuns /\ navigation_complete(data)
    \/ \E session_id \in StatusRequests : AppRuns /\ get_navigation_status(session_id)
    \/ \E data \in StartRequests : GpsRuns /\ gps_start_navigation(data)
    \/ \E data \in StepRequests :
          GpsRuns /\ Len(gps_completed_steps) < MaxGpsSteps /\ gps_step_completed(data)
    \/ \E data \in CompleteRequests : GpsRuns /\ gps_navigation_complete(data)
    \/ \E session_id \in StatusRequests : GpsRuns /\ gps_get_navigation_status(session_id)

Spec == Init /\ [][Next]_vars

(***************************************************************************)
(* SpecThrottle: single updates of one session against the clock           *)
(***************************************************************************)
ThrottleMaxClock == 5

ThrottleMaxRequests == 4

ThrottleRequests ==
    {IngestRequest(Some("S1"), l) :
        l \in {Some(NoLatitude), Some(Point(DefaultLatitude)),
               Some(PointAcc(DefaultLatitude + 1, 10))}}

NextThrottle ==
    \/ now < ThrottleMaxClock /\ Tick
    \/ \E data \in ThrottleRequests :
          api_request_logs < ThrottleMaxRequests /\ update_location(data)

SpecThrottle == InitApp /\ [][NextThrottle]_vars

(***************************************************************************)
(* SpecIngest: a long run of single updates, each sent when the throttle   *)
(* window of the one before has passed, or at once                         *)
(***************************************************************************)
\* Updates the session sends that are not throttled.
IngestMaxUpdates == 203

\* The throttle window of the session's last update is still running.
WindowRunning(session_id) ==
    /\ session_id \in DOMAIN last_location_update
    /\ now - last_location_update[session_id] < LOCATION_UPDATE_THROTTLE

NextIngest ==
    \/ WindowRunning("S1") /\ WaitThrottle
    \/ /\ Get(location_update_counts, "S1", 0) < IngestMaxUpdates
       /\ update_location(IngestRequest(Some("S1"), Some(Point(DefaultLatitude))))

SpecIngest == InitApp /\ [][NextIngest]_vars

(***************************************************************************)
(* SpecBulk: bulk updates up to the largest batch, with single updates     *)
(***************************************************************************)
BulkMaxRequests == 5

LargeBulkRequests ==
    {BulkRequest(Some("S1"), l) :
        l \in {Some(MixedBatch), Some(Batch(MaxBulkLocations)),
               Some(Batch(MaxBulkLocations + 1))}}

NextBulk ==
    \/ WindowRunning("S1") /\ WaitThrottle
    \/ /\ api_request_logs < BulkMaxRequests
       /\ update_location(IngestRequest(Some("S1"), Some(Point(DefaultLatitude))))
    \/ \E data \in LargeBulkRequests :
          api_request_logs < BulkMaxRequests /\ bulk_update_location(data)

SpecBulk == InitApp /\ [][NextBulk]_vars

(***************************************************************************)
(* SpecSteps: a session and its step completions, in both programs         *)
(***************************************************************************)
\* Step completions recorded in one run.
MaxSteps == 4

\* Largest total_steps of a started session.
MaxTotalSteps == 4

RouteStartRequests ==
    {StartRequest(Some("S1"), Some(n)) : n \in {MaxTotalSteps - 1, MaxTotalSteps}}

RouteStepRequests ==
    {StepRequest(Some("S1"), Some(i), Some("Turn left"), Some(Point(DefaultLatitude))) :
        i \in 0..(MaxTotalSteps - 1)}

StepsAppRuns ==
    server = "app.py" /\ api_request_logs < MaxSteps + 2

NextSteps ==
    \/ \E data \in RouteStartRequests : StepsAppRuns /\ start_navigation(data)
    \/ \E data \in RouteStepRequests :
          StepsAppRuns /\ Len(completed_steps) < MaxSteps /\ step_completed(data)
    \/ StepsAppRuns /\ update_destination(DestinationUpdate(Some("Cafe"), None))
    \/ \E data \in RouteStartRequests : GpsRuns /\ gps_start_navigation(data)
    \/ \E data \in RouteStepRequests :
          GpsRuns /\ Len(gps_completed_steps) < MaxSteps /\ gps_step_completed(data)

SpecSteps == Init /\ [][NextSteps]_vars

(***************************************************************************)
(* SpecComplete: one session, started once and completed again and again   *)
(***************************************************************************)
\* Seconds the clock runs.
CompleteMaxClock == 2

\* Requests app.py logs in one run.
CompleteMaxRequests == 4

FinalRequests ==
    {CompleteRequest(Some("S1"), l) :
        l \in {None, Some(Point(DefaultLatitude)), Some(Point(DefaultLatitude + 1))}}

NextComplete ==
    \/ now < CompleteMaxClock /\ Tick
    \/ /\ server = "app.py" /\ "S1" \notin DOMAIN navigation_sessions
       /\ start_navigation(StartRequest(Some("S1"), Some(FewSteps)))
    \/ \E data \in FinalRequests :
          /\ server = "app.py" /\ api_request_logs < CompleteMaxRequests
          /\ navigation_complete(data)
    \/ /\ server = "gps.py" /\ "S1" \notin DOMAIN gps_navigation_sessions
       /\ gps_start_navigation(StartRequest(Some("S1"), Some(FewSteps)))
    \/ \E data \in FinalRequests : server = "gps.py" /\ gps_navigation_complete(data)

SpecComplete == Init /\ [][NextComplete]_vars

(***************************************************************************)
(* SpecStats: single and bulk updates of one session at several positions  *)
(* and accuracies                                                          *)
(***************************************************************************)
\* Updates the session sends that are not throttled.
StatsMaxUpdates == 4

StatsSamples ==
    {PointAcc(DefaultLatitude, 10), PointAcc(DefaultLatitude + 1, 20),
     PointAcc(DefaultLatitude + 3, 30), Point(DefaultLatitude)}

\* Two samples in one bulk update.
StatsBatch ==
    <<Sample(Some(PointAcc(DefaultLatitude + 1, 20)), Some(1)),
      Sample(Some(PointAcc(DefaultLatitude + 3, 30)), Some(2))>>

NextStats ==
    \/ WindowRunning("S1") /\ WaitThrottle
    \/ /\ "S1" \notin DOMAIN navigation_sessions
       /\ start_navigation(StartRequest(Some("S1"), Some(FewSteps)))
    \/ \E l \in StatsSamples :
          /\ Get(location_update_counts, "S1", 0) < StatsMaxUpdates
          /\ update_location(IngestRequest(Some("S1"), Some(l)))
    \/ /\ Len(Get(appended, "S1", <<>>)) < StatsMaxUpdates - 1
       /\ bulk_update_location(BulkRequest(Some("S1"), Some(StatsBatch)))

SpecStats == InitApp /\ [][NextStats]_vars

(***************************************************************************)
(* SpecDestination: the destination, asked for and updated                 *)
(***************************************************************************)
\* Requests app.py logs in one run.
DestinationMaxRequests == 3

\* No parameter, "32", "abc,76", "nan,76", "32,76", "33,76" and "35,76".
UserLocations ==
    {None, Some(<<Some(DefaultLatitude)>>), Some(<<None, Some(DefaultLongitude)>>),
     Some(<<Some(NaN), Some(DefaultLongitude)>>),
     Some(<<Some(DefaultLatitude), Some(DefaultLongitude)>>),
     Some(<<Some(DefaultLatitude + 1), Some(DefaultLongitude)>>),
     Some(<<Some(DefaultLatitude + 3), Some(DefaultLongitude)>>)}

DestinationMoves ==
    {DestinationUpdate(Some("Cafe"), None),
     DestinationUpdate(None, Some(Some(Coordinates(Some(DefaultLatitude + 1),
                                                   Some(DefaultLongitude))))),
     DestinationUpdate(None, Some(Some(Coordinates(None, Some(DefaultLongitude)))))}

NextDestination ==
    \/ now < MaxClock /\ Tick
    \/ \E user_location \in UserLocations :
          /\ api_request_logs < DestinationMaxRequests
          /\ get_current_destination(user_location)
    \/ \E data \in DestinationMoves :
          /\ api_request_logs < DestinationMaxRequests
          /\ update_destination(data)

SpecDestination == InitApp /\ [][NextDestination]_vars

(***************************************************************************)
(* SpecBestEffort: single updates of one session while the destination's   *)
(* coordinates are replaced by unusable ones                               *)
(***************************************************************************)
\* Requests app.py logs in one run.
BestEffortMaxRequests == 4

\* "coordinates": null, {"longitude": 76} and {"latitude": NaN, "longitude": 76}.
BrokenCoordinates ==
    {DestinationUpdate(None, Some(c)) :
        c \in {None, Some(Coordinates(None, Some(DefaultLongitude))),
               Some(Coordinates(Some(NaN), Some(DefaultLongitude)))}}

BestEffortRequests ==
    {IngestRequest(Some("S1"), Some(Point(DefaultLatitude + i))) : i \in 0..1}

NextBestEffort ==
    \/ WindowRunning("S1") /\ WaitThrottle
    \/ \E data \in BrokenCoordinates :
          api_request_logs < BestEffortMaxRequests /\ update_destination(data)
    \/ \E data \in BestEffortRequests :
          api_request_logs < BestEffortMaxRequests /\ update_location(data)

SpecBestEffort == InitApp /\ [][NextBestEffort]_vars

(***************************************************************************)
(* Two sessions started, advanced, queried, completed and started again    *)
(***************************************************************************)
\* Requests logged in a run.
TableMaxRequests == 5

\* The sessions of two clients.
TrackedSessions == {"S1", "S2"}

\* The first step of "S1", reported with a position and with a
\* current_location that has no latitude.
TableSteps ==
    {StepRequest(Some("S1"), Some(0), Some("Turn left"), Some(l)) :
        l \in {Point(DefaultLatitude), NoLatitude}}

NextTable ==
    \/ \E session_id \in TrackedSessions :
          /\ api_request_logs < TableMaxRequests
          /\ start_navigation(StartRequest(Some(session_id), Some(FewSteps)))
    \/ \E data \in TableSteps :
          api_request_logs < TableMaxRequests /\ step_completed(data)
    \/ api_request_logs < TableMaxRequests /\ get_navigation_status("S1")
    \/ \E session_id \in TrackedSessions :
          /\ api_request_logs < TableMaxRequests
          /\ navigation_complete(CompleteRequest(Some(session_id), None))

SpecTable == InitApp /\ [][NextTable]_vars

(***************************************************************************)
(* Samples with a speed, past the cap of speed_records                     *)
(***************************************************************************)
\* Requests logged in a run.
SpeedMaxRequests == 4

\* k samples at the destination with speeds 1, 2, 0, 1, 2, 0, ...
SpeedBatch(k) ==
    [i \in 1..k |-> Sample(Some(PointSpeed(DefaultLatitude, i % 3)), Some(i))]

\* Samples without a speed, with speed 0, with a negative speed, with speed 4.
SlowBatch ==
    <<Sample(Some(Point(DefaultLatitude)), Some(1)),
      Sample(Some(PointSpeed(DefaultLatitude, 0)), Some(2)),
      Sample(Some(PointSpeed(DefaultLatitude, -1)), Some(3)),
      Sample(Some(PointSpeed(DefaultLatitude, 4)), Some(4))>>

SpeedBulkRequests ==
    {BulkRequest(Some("S1"), Some(l)) : l \in {SpeedBatch(MaxBulkLocations), SlowBatch}}

SpeedIngests ==
    {IngestRequest(Some("S1"), Some(PointSpeed(DefaultLatitude, spd))) : spd \in {0, 5}}

NextSpeed ==
    \/ WindowRunning("S1") /\ WaitThrottle
    \/ \E data \in SpeedIngests :
          api_request_logs < SpeedMaxRequests /\ update_location(data)
    \/ \E data \in SpeedBulkRequests :
          api_request_logs < SpeedMaxRequests /\ bulk_update_location(data)

SpecSpeed == InitApp /\ [][NextSpeed]_vars

(***************************************************************************)
(* Ingests for two sessions                                                *)
(***************************************************************************)
\* Requests logged in a run.
SessionsMaxRequests == 4

\* The clock stops here.
SessionsMaxClock == 3

\* Single ingests of either session, at the destination and one step north.
SessionIngests ==
    {IngestRequest(Some(session_id), Some(Point(lat))) :
        session_id \in TrackedSessions, lat \in {DefaultLatitude, DefaultLatitude + 1}}

NextSessions ==
    \/ now < SessionsMaxClock /\ Tick
    \/ \E data \in SessionIngests :
          api_request_logs < SessionsMaxRequests /\ update_location(data)
    \/ /\ api_request_logs < SessionsMaxRequests
       /\ bulk_update_location(
              BulkRequest(Some("S1"),
                          Some(<<Sample(Some(Point(DefaultLatitude)), Some(1)),
                                 Sample(Some(NoLatitude), Some(2))>>)))

SpecSessions == InitApp /\ [][NextSessions]_vars

(***************************************************************************)
(* Concurrent ingests: two worker threads, one session                     *)
(***************************************************************************)
\* Requests received in a run.
ThreadsMaxRequests == 3

\* The clock stops here.
ThreadsMaxClock == 4

\* Single ingests for "S1", at the destination and one step north of it.
ThreadIngests ==
    {IngestRequest(Some("S1"), Some(Point(DefaultLatitude))),
     IngestRequest(Some("S1"), Some(Point(DefaultLatitude + 1)))}

\* A batch of one sample for "S1".
ThreadBatches ==
    {BulkRequest(Some("S1"), Some(<<Sample(Some(Point(DefaultLatitude + 1)), Some(1))>>))}

\* No handler is in progress.
AllIdle == \A t \in ThreadIds : threads[t].pc = "idle"

\* The handlers in progress.
Busy == {t \in ThreadIds : threads[t].pc /= "idle"}

\* Another request may be received.
MayReceive == api_request_logs + Cardinality(Busy) < ThreadsMaxRequests

NextThreads ==
    \/ AllIdle /\ now < ThreadsMaxClock /\ WaitThrottle
    \/ \E t \in ThreadIds, data \in ThreadIngests : MayReceive /\ BeginUpdate(t, data)
    \/ \E t \in ThreadIds : StoreUpdate(t)
    \/ \E t \in ThreadIds : FinishUpdate(t)
    \/ \E t \in ThreadIds, data \in ThreadBatches : MayReceive /\ BeginBulk(t, data)
    \/ \E t \in ThreadIds : StoreSample(t)
    \/ \E t \in ThreadIds : CountSample(t)
    \/ \E t \in ThreadIds : FinishBulk(t)

SpecThreads == InitApp /\ [][NextThreads]_vars

(***************************************************************************)
(* Claims about the location tracker                                       *)
(***************************************************************************)
History(session_id) == Get(location_history, session_id, <<>>)

Appended(session_id) == Get(appended, session_id, <<>>)

TotalUpdates(stats, session_id) ==
    IF session_id \in DOMAIN stats THEN stats[session_id].total_updates ELSE 0

\* C1: after any sequence of single and bulk updates, no session's retained
\* location history holds more than 200 samples.
C1_HistoryNeverExceedsCap ==
    \A s \in DOMAIN location_history : Len(location_history[s]) <= MaxLocationHistory

\* C2: while a session has received single updates only, its retained history
\* is exactly the most recent min(n, 200) of the n samples appended for it, in
\* arrival order.
C2_SingleIngestsKeepMostRecent ==
    \A s \in DOMAIN appended :
        (\A i \in 1..Len(appended[s]) : ~appended[s][i].bulk_update)
        => /\ s \in DOMAIN location_history
           /\ location_history[s]
                = LastN(appended[s], Min(Len(appended[s]), MaxLocationHistory))

\* C2 witness: more than 200 single updates were appended, and the oldest
\* is gone from the history.
C2_Witness ==
    /\ "S1" \in DOMAIN appended
    /\ Len(appended["S1"]) > MaxLocationHistory
    /\ \A i \in 1..Len(appended["S1"]) : ~appended["S1"][i].bulk_update
    /\ Len(location_history["S1"]) = MaxLocationHistory
    /\ location_history["S1"][1] = appended["S1"][Len(appended["S1"]) - MaxLocationHistory + 1]
    /\ location_history["S1"][1] /= appended["S1"][1]

\* The update of one step that is update_location(data) with a valid location
\* was appended to the session's history as its newest record.
IngestStored(data) ==
    LET s == SessionIdOr(data)
    IN  /\ appended'[s] = Append(Appended(s), appended'[s][Len(appended'[s])])
        /\ appended'[s][Len(appended'[s])].location = Val(data.location)
        /\ ~appended'[s][Len(appended'[s])].bulk_update
        /\ location_history'[s][Len(location_history'[s])]
             = appended'[s][Len(appended'[s])]

\* When the last handler answered an update of the session with 429, the time
\* that update arrived, read back from the throttle_remaining it reported;
\* otherwise the time of the session's last update that was not throttled.
PreviousIngestAt(session_id) ==
    IF /\ response.op = "update_location"
       /\ response.status = 429
       /\ response.session_id = session_id
    THEN last_location_update[session_id]
         + (LOCATION_UPDATE_THROTTLE - response.throttle_remaining)
    ELSE last_location_update[session_id]

C4_FirstIngestAccepted ==
    [][\A data \in ThrottleRequests :
          ( /\ update_location(data)
            /\ ~InvalidLocation(data.location)
            /\ SessionIdOr(data) \notin DOMAIN last_location_update
            /\ Appended(SessionIdOr(data)) = <<>> )
          => /\ response'.status = 200
             /\ Len(location_history'[SessionIdOr(data)]) = 1
             /\ TotalUpdates(location_stats', SessionIdOr(data)) = 1]_vars

\* C5: a bulk update of more than 50 samples is answered 400 and leaves the
\* history, the stats, the update counter and the throttle timestamp of every
\* session unchanged.
C5_OversizedBulkRejected ==
    [][\A data \in LargeBulkRequests :
          ( /\ IsSome(data.locations)
            /\ Len(Val(data.locations)) > MaxBulkLocations
            /\ bulk_update_location(data) )
          => /\ response'.status = 400
             /\ UNCHANGED <<location_history, appended, location_stats,
                            location_update_counts, last_location_update>>]_vars

\* C5 witness: a batch of 51 was rejected for a session that has a history.
C5_Witness ==
    /\ response.op = "bulk_update_location"
    /\ response.status = 400
    /\ response.error = "Maximum 50 locations per bulk update"
    /\ Len(History("S1")) > 0
    /\ TotalUpdates(location_stats, "S1") > 0

\* C6: a bulk update of k <= 50 samples that each carry a location (with
\* latitude and longitude) is answered 200 with processed_count = k, appends
\* the k samples to the session's history in the given order, and raises
\* total_updates by exactly k.
C6_BulkProcessesAllInOrder ==
    [][\A data \in LargeBulkRequests :
          ( /\ IsSome(data.locations)
            /\ Len(Val(data.locations)) <= MaxBulkLocations
            /\ \A i \in 1..Len(Val(data.locations)) :
                  ~InvalidLocation(Val(data.locations)[i].location)
            /\ response'.op = "bulk_update_location"
            /\ bulk_update_location(data) )
          => LET s == SessionIdOr(data)
                 k == Len(Val(data.locations))
                 n == Len(History(s))
                 h == Get(location_history', s, <<>>)
             IN  /\ response'.status = 200
                 /\ response'.processed_count = k
                 /\ Len(h) = n + k
                 /\ SubSeq(h, 1, n) = History(s)
                 /\ \A i \in 1..k :
                       /\ h[n + i].location = Val(Val(data.locations)[i].location)
                       /\ h[n + i].timestamp = Val(Val(data.locations)[i].timestamp)
                       /\ h[n + i].bulk_update
                 /\ TotalUpdates(location_stats', s)
                      = TotalUpdates(location_stats, s) + k]_vars

\* C6 witness: a batch of 50 was processed whole on top of an earlier history.
C6_Witness ==
    /\ response.op = "bulk_update_location"
    /\ response.status = 200
    /\ response.processed_count = MaxBulkLocations
    /\ Len(History("S1")) > MaxBulkLocations
    /\ History("S1")[Len(History("S1"))].timestamp = MaxBulkLocations
    /\ History("S1")[Len(History("S1")) - 1].timestamp = MaxBulkLocations - 1

(***************************************************************************)
(* Claims about the navigation sessions                                    *)
(***************************************************************************)
\* The step of sessions to sessions2 never takes a completed session to
\* active.
StaysCompleted(sessions, sessions2) ==
    \A s \in DOMAIN sessions :
        sessions[s].status = "completed" => sessions2[s].status /= "active"

\* C7 as stated: once a session is completed, no operation makes it active
\* again, in app.py or in gps.py.
C7_CompletedNeverActiveAgain ==
    [][/\ StaysCompleted(navigation_sessions, navigation_sessions')
       /\ StaysCompleted(gps_navigation_sessions, gps_navigation_sessions')]_vars

\* A session the step leaves with a status other than the completed it had
\* comes from the start handler named op, answered 200 for that session_id,
\* and is a fresh record.
OnlyStartReactivates(sessions, sessions2, op) ==
    \A s \in DOMAIN sessions :
        /\ s \in DOMAIN sessions2
        /\ sessions2[s].status \in {"active", "completed"}
        /\ (sessions[s].status = "completed" /\ sessions2[s].status /= "completed")
           => /\ response'.op = op
              /\ response'.status = 200
              /\ response'.session_id = s
              /\ sessions2[s].status = "active"
              /\ sessions2[s].completed_steps = 0
              /\ sessions2[s].completed_at = None
              /\ sessions2[s].final_location = None

\* C7 amended: a session's status is active or completed, and once it is
\* completed only a new start for the same session_id, which replaces the
\* record by a fresh active one, makes it active again: no step completion,
\* completion, location update, bulk update or destination update does.
C7_OnlyStartMakesActiveAgain ==
    [][/\ OnlyStartReactivates(navigation_sessions, navigation_sessions',
                               "start_navigation")
       /\ OnlyStartReactivates(gps_navigation_sessions, gps_navigation_sessions',
                               "gps_start_navigation")]_vars

\* C7 witness: a step was completed for a session that is completed, and the
\* session is still completed.
C7_Witness ==
    /\ "S1" \in DOMAIN navigation_sessions
    /\ navigation_sessions["S1"].status = "completed"
    /\ navigation_sessions["S1"].last_update = Some(now)
    /\ response.op = "step_completed"
    /\ response.status = 200
    /\ response.session_status = "active"

\* session is a fresh record: active, no completed steps, no completion time,
\* no final location, no step time, started at t with the request's
\* total_steps and the given destination.
FreshSession(session, data, destination, t) ==
    /\ session.status = "active"
    /\ session.completed_steps = 0
    /\ session.completed_at = None
    /\ session.final_location = None
    /\ session.last_update = None
    /\ session.started_at = t
    /\ session.total_steps = data.total_steps
    /\ session.destination = destination

\* C8: a start for a session_id that is already known is answered 200 and
\* replaces the session by a fresh record: active, completed_steps 0, no
\* completed_at, no final_location, and the destination as it is at the new
\* call (CURRENT_DESTINATION in app.py, the request's destination in gps.py).
C8_RestartReplacesSession ==
    [][\A data \in StartRequests :
          /\ ( /\ IsSome(data.session_id)
               /\ Val(data.session_id) \in DOMAIN navigation_sessions
               /\ start_navigation(data) )
             => /\ response'.status = 200
                /\ FreshSession(navigation_sessions'[Val(data.session_id)], data,
                                CURRENT_DESTINATION, now)
          /\ ( /\ IsSome(data.session_id)
               /\ Val(data.session_id) \in DOMAIN gps_navigation_sessions
               /\ gps_start_navigation(data) )
             => /\ response'.status = 200
                /\ FreshSession(gps_navigation_sessions'[Val(data.session_id)], data,
                                data.destination, now)]_vars

\* C8 witness: the session was started again after a step of it was
\* recorded, and is a fresh record.
C8_Witness ==
    /\ \E i \in 1..Len(completed_steps) : completed_steps[i].session_id = "S1"
    /\ "S1" \in DOMAIN navigation_sessions
    /\ navigation_sessions["S1"].status = "active"
    /\ navigation_sessions["S1"].completed_steps = 0
    /\ navigation_sessions["S1"].last_update = None
    /\ response.op = "start_navigation"
    /\ response.status = 200

\* The last handler was a step completion answered 200.
StepAnswered ==
    /\ response.op \in {"step_completed", "gps_step_completed"}
    /\ response.status = 200

\* The session of the step completion just answered.
AnsweredSession ==
    IF response.op = "step_completed"
    THEN navigation_sessions[response.session_id]
    ELSE gps_navigation_sessions[response.session_id]

\* C9 as stated: a successful step completion with step_index i of a session
\* of n > 0 steps sets completed_steps to i + 1 and reports exactly
\* (i + 1) / n * 100 (percentage is in tenths of a percent).
C9_ReportsExactPercentage ==
    StepAnswered
    => /\ AnsweredSession.completed_steps = response.step_index + 1
       /\ response.percentage * response.total_steps
            = (response.step_index + 1) * 1000

\* C9 amended: it sets completed_steps to i + 1 and reports (i + 1) / n * 100
\* rounded to one decimal place; with n = 4, steps 0, 1, 2, 3 report 25.0,
\* 50.0, 75.0 and 100.0.
C9_ReportsRoundedPercentage ==
    StepAnswered
    => /\ AnsweredSession.completed_steps = response.step_index + 1
       /\ response.completed_steps = response.step_index + 1
       /\ 2 * Abs(response.percentage * response.total_steps
                    - (response.step_index + 1) * 1000)
            <= response.total_steps
       /\ response.total_steps = 4
          => response.percentage = 250 * (response.step_index + 1)

\* C9 witness: steps 0, 1, 2, 3 of a session of 4 steps were completed in
\* order, and the last reported 100.0.
C9_Witness ==
    /\ StepAnswered
    /\ response.op = "step_completed"
    /\ response.total_steps = 4
    /\ Len(completed_steps) = 4
    /\ \A i \in 1..4 : completed_steps[i].step_index = i - 1
    /\ navigation_sessions["S1"].completed_steps = 4
    /\ response.percentage = 1000

\* C10: the announcement of a successful step completion is the final one,
\* naming the session's destination, exactly when total_steps -
\* (step_index + 1) <= 0; otherwise it is the one that gives that number of
\* steps remaining to the destination.
C10_FinalAnnouncementWhenNoneRemain ==
    (response.op = "step_completed" /\ response.status = 200)
    => LET remaining == response.total_steps - (response.step_index + 1)
           said == response.voice_announcement
       IN  /\ said.destination_name
                = navigation_sessions[response.session_id].destination.name
           /\ IF remaining <= 0
              THEN said.text
                     = "Final step completed. You have arrived at {destination_name}."
              ELSE /\ said.text
                        = "Step completed. {steps_remaining} steps remaining to {destination_name}."
                   /\ said.steps_remaining = Some(remaining)

\* C10 witness: the last step of a session was completed after the
\* destination was renamed, and the final announcement names the
\* destination the session was started with.
C10_Witness ==
    /\ response.op = "step_completed"
    /\ response.status = 200
    /\ response.total_steps = response.step_index + 1
    /\ response.voice_announcement.text
         = "Final step completed. You have arrived at {destination_name}."
    /\ response.voice_announcement.destination_name = "Default Destination"
    /\ CURRENT_DESTINATION.name = "Cafe"

(***************************************************************************)
(* Claims about sessions without a step total, unknown and completed       *)
(* sessions                                                                *)
(***************************************************************************)
\* The session's total_steps is 0 or was not supplied at start.
NoTotalSteps(session) ==
    \/ ~IsSome(session.total_steps)
    \/ Val(session.total_steps) = 0

\* C11: a step completion with all required fields on a session whose
\* total_steps is 0 or was not supplied at start succeeds, in app.py and in
\* gps.py, and reports a progress of 100% (percentage is in tenths of a
\* percent).
C11_StepWithoutTotalSucceeds ==
    [][\A data \in StepRequests :
          (/\ ~StepFieldsMissing(data)
           /\ \/ /\ Val(data.session_id) \in DOMAIN navigation_sessions
                 /\ NoTotalSteps(navigation_sessions[Val(data.session_id)])
                 /\ step_completed(data)
              \/ /\ Val(data.session_id) \in DOMAIN gps_navigation_sessions
                 /\ NoTotalSteps(gps_navigation_sessions[Val(data.session_id)])
                 /\ gps_step_completed(data))
          => /\ response'.status = 200
             /\ response'.percentage = 1000]_vars

\* The answer is SessionNotFound and the session map, the step-completion
\* records and all location state are as before.
NotFoundAndUnchanged ==
    /\ response'.status = 404
    /\ UNCHANGED <<navigation_sessions, completed_steps, locVars, gpsVars>>

\* C12: for a session_id that no start has stored, the status request, a
\* step completion with all required fields and complete each answer 404
\* and change neither the sessions, nor the step records, nor any location
\* state; in app.py and in gps.py.
C12_UnknownSessionNotFound ==
    [][/\ \A session_id \in StatusRequests :
            /\ (session_id \notin DOMAIN navigation_sessions
                /\ get_navigation_status(session_id)) => NotFoundAndUnchanged
            /\ (session_id \notin DOMAIN gps_navigation_sessions
                /\ gps_get_navigation_status(session_id)) => NotFoundAndUnchanged
       /\ \A data \in StepRequests :
            /\ (~StepFieldsMissing(data)
                /\ Val(data.session_id) \notin DOMAIN navigation_sessions
                /\ step_completed(data)) => NotFoundAndUnchanged
            /\ (~StepFieldsMissing(data)
                /\ Val(data.session_id) \notin DOMAIN gps_navigation_sessions
                /\ gps_step_completed(data)) => NotFoundAndUnchanged
       /\ \A data \in CompleteRequests :
            /\ (IsSome(data.session_id)
                /\ Val(data.session_id) \notin DOMAIN navigation_sessions
                /\ navigation_complete(data)) => NotFoundAndUnchanged
            /\ (IsSome(data.session_id)
                /\ Val(data.session_id) \notin DOMAIN gps_navigation_sessions
                /\ gps_navigation_complete(data)) => NotFoundAndUnchanged]_vars

\* "S1" was started and has a recorded step, and the status of "S2", which
\* was never started, was just asked for.
C12_Witness ==
    /\ "S1" \in DOMAIN navigation_sessions
    /\ "S2" \notin DOMAIN navigation_sessions
    /\ Len(completed_steps) = 1
    /\ response = [op |-> "get_navigation_status", status |-> 404]

\* The session is completed and has a positive total_steps.
Completed(sessions, session_id) ==
    /\ session_id \in DOMAIN sessions
    /\ sessions[session_id].status = "completed"
    /\ ~NoTotalSteps(sessions[session_id])

\* C13: a step completion for a completed session (of a positive
\* total_steps) changes no field of the session record, completed_steps
\* included; in app.py and in gps.py.
C13_StepLeavesCompletedSession ==
    [][\A data \in StepRequests :
          /\ (/\ ~StepFieldsMissing(data)
              /\ Completed(navigation_sessions, Val(data.session_id))
              /\ step_completed(data))
             => navigation_sessions' = navigation_sessions
          /\ (/\ ~StepFieldsMissing(data)
              /\ Completed(gps_navigation_sessions, Val(data.session_id))
              /\ gps_step_completed(data))
             => gps_navigation_sessions' = gps_navigation_sessions]_vars

\* The session carries the completion that data asks for at time t.
CompletedWith(session, data, t) ==
    /\ session.status = "completed"
    /\ session.completed_at = Some(t)
    /\ session.final_location = data.final_location
    /\ session.actual_total_time = data.total_time
    /\ session.actual_distance_traveled = data.total_distance_traveled

\* C14: complete on an already completed session answers 200 again; the
\* status stays completed and completed_at, final_location,
\* actual_total_time and actual_distance_traveled become those of the later
\* call; in app.py and in gps.py.
C14_RecompleteOverwrites ==
    [][\A data \in FinalRequests :
          /\ (/\ Val(data.session_id) \in DOMAIN navigation_sessions
              /\ navigation_sessions[Val(data.session_id)].status = "completed"
              /\ navigation_complete(data))
             => /\ response'.status = 200
                /\ CompletedWith(navigation_sessions'[Val(data.session_id)], data, now)
          /\ (/\ Val(data.session_id) \in DOMAIN gps_navigation_sessions
              /\ gps_navigation_sessions[Val(data.session_id)].status = "completed"
              /\ gps_navigation_complete(data))
             => /\ response'.status = 200
                /\ CompletedWith(gps_navigation_sessions'[Val(data.session_id)],
                                 data, now)]_vars

\* app.py has logged three requests, the one start of "S1" and two
\* completions; the later one came a second after the start, without a
\* final location, and the session holds its values.
C14_Witness ==
    /\ api_request_logs = 3
    /\ response.op = "navigation_complete"
    /\ response.status = 200
    /\ navigation_sessions["S1"].started_at = 0
    /\ now = 1
    /\ CompletedWith(navigation_sessions["S1"], CompleteRequest(Some("S1"), None), 1)

(***************************************************************************)
(* Claims about what start stores                                          *)
(***************************************************************************)
\* C15: the destination a session holds is the one its start stored: no
\* destination update (name, coordinates, address, instructions) and no
\* other request but a start changes it, and the step-completed and
\* complete answers name that stored destination.
C15_SessionKeepsDestinationSnapshot ==
    [][/\ \A data \in DestinationUpdates :
            update_destination(data) => navigation_sessions' = navigation_sessions
       /\ \A s \in DOMAIN navigation_sessions :
            response'.op /= "start_navigation"
            => /\ s \in DOMAIN navigation_sessions'
               /\ navigation_sessions'[s].destination = navigation_sessions[s].destination
       /\ (response'.op = "step_completed" /\ response'.status = 200)
          => /\ response'.destination_name =
                    navigation_sessions[response'.session_id].destination.name
             /\ response'.voice_announcement.destination_name =
                    navigation_sessions[response'.session_id].destination.name
       /\ (response'.op = "navigation_complete" /\ response'.status = 200)
          => response'.destination_name =
                 navigation_sessions[response'.session_id].destination.name]_vars

\* A session started under the default destination was completed after the
\* destination was renamed: it still holds, and the answer names, the
\* default one.
C15_Witness ==
    /\ response.op = "navigation_complete"
    /\ response.status = 200
    /\ CURRENT_DESTINATION.name = "Cafe"
    /\ navigation_sessions[response.session_id].destination = DefaultDestination
    /\ response.destination_name = DefaultDestination.name

\* C16: right after a successful start the session's location history is
\* empty and its stats have total_updates = 0 and total_distance = 0,
\* whatever was ingested for that session_id before.
C16_StartEmptiesLocationTracking ==
    (response.op = "start_navigation" /\ response.status = 200)
    => /\ location_history[response.session_id] = <<>>
       /\ location_stats[response.session_id].total_updates = 0
       /\ location_stats[response.session_id].total_distance = 0

(***************************************************************************)
(* Claims about the session statistics                                     *)
(***************************************************************************)
\* Every record carries a positive accuracy.
AllAccurate(records) ==
    \A i \in 1..Len(records) :
        /\ IsSome(records[i].location.accuracy)
        /\ Val(records[i].location.accuracy) > 0

\* The sum of the accuracies of the records.
RECURSIVE SumAccuracy(_)
SumAccuracy(records) ==
    IF records = <<>> THEN 0
    ELSE Val(Head(records).location.accuracy) + SumAccuracy(Tail(records))

\* C17: when every sample ingested for a session carries a positive
\* accuracy, average_accuracy after k samples is the arithmetic mean of the
\* k accuracies; the samples counted are those the stats were updated with.
C17_AverageAccuracyIsMean ==
    \A s \in DOMAIN appended :
        (appended[s] /= <<>> /\ AllAccurate(appended[s]))
        => /\ location_stats[s].total_updates = Len(appended[s])
           /\ location_stats[s].average_accuracy =
                  Frac(SumAccuracy(appended[s]), Len(appended[s]))

\* Accuracies 10, 20, 30 were ingested in that order, and the average is 20.
C17_Witness ==
    /\ "S1" \in DOMAIN appended
    /\ Len(appended["S1"]) = 3
    /\ \A i \in 1..3 : appended["S1"][i].location.accuracy = Some(10 * i)
    /\ location_stats["S1"].average_accuracy = Frac(20, 1)

\* The sum of calculate_distance over the consecutive pairs of the records.
RECURSIVE PathLength(_)
PathLength(records) ==
    IF Len(records) < 2 THEN 0
    ELSE LET p == records[1].location
             q == records[2].location
         IN  calculate_distance(Val(p.latitude), Val(p.longitude),
                                Val(q.latitude), Val(q.longitude))
             + PathLength(Tail(records))

\* C18: for a session whose samples p1..pk were ingested in that order,
\* total_distance is the sum of the distances of the k-1 consecutive pairs;
\* the first sample adds no distance.
C18_TotalDistanceIsPathLength ==
    \A s \in DOMAIN appended :
        appended[s] /= <<>>
        => location_stats[s].total_distance = PathLength(appended[s])

\* Three samples at three different positions: two legs of different
\* lengths.
C18_Witness ==
    /\ "S1" \in DOMAIN appended
    /\ Len(appended["S1"]) = 3
    /\ appended["S1"][1].location.latitude = Some(DefaultLatitude)
    /\ appended["S1"][2].location.latitude = Some(DefaultLatitude + 3)
    /\ appended["S1"][3].location.latitude = Some(DefaultLatitude + 1)
    /\ location_stats["S1"].total_distance = 5 * MetresPerDegree

(***************************************************************************)
(* Claims about distances and the walking time                             *)
(***************************************************************************)
\* n / d rounded to the nearest whole number, a tie going to the even one.
Round(n, d) ==
    LET q == n \div d
        r == n % d
    IN  IF 2 * r < d THEN q
        ELSE IF 2 * r > d THEN q + 1
        ELSE IF q % 2 = 0 THEN q ELSE q + 1

\* max(5, round(distance * 3)) minutes for a distance given in metres.
RoundedWalkingTime(distance) ==
    IF Round(distance * 3, 1000) > 5 THEN Round(distance * 3, 1000) ELSE 5

\* C19: the walking time reported with the destination is
\* max(5, round(distanceKm * 3)) minutes, for every distance between the
\* user and the destination.
C19_WalkingTimeIsRounded ==
    (/\ response.op = "get_current_destination"
     /\ response.status = 200
     /\ IsSome(response.distance_meters))
    => response.calculated_time = Some(RoundedWalkingTime(Val(response.distance_meters)))

\* The location lies where the session's last sample lies.
AtLastLocation(location) ==
    /\ "S1" \in DOMAIN location_stats
    /\ location_stats["S1"].total_updates > 0
    /\ Val(location_stats["S1"].last_location).latitude = location.latitude
    /\ Val(location_stats["S1"].last_location).longitude = location.longitude

\* C20: the distance from a coordinate to itself is 0, so a sample at the
\* position of the session's last sample leaves total_distance as it is.
C20_SamePositionAddsNothing ==
    [][/\ \A lat \in {-90, 0, DefaultLatitude, 90} :
            \A lng \in {-180, 0, DefaultLongitude, 180} :
                calculate_distance(lat, lng, lat, lng) = 0
       /\ \A l \in StatsSamples :
            (AtLastLocation(l) /\ update_location(IngestRequest(Some("S1"), Some(l))))
            => location_stats'["S1"].total_distance =
                   location_stats["S1"].total_distance]_vars

\* Two samples were ingested at one position, one after the other: the stats
\* count both and the distance is still 0.
C20_Witness ==
    /\ "S1" \in DOMAIN appended
    /\ Len(appended["S1"]) = 2
    /\ appended["S1"][1].location.latitude = appended["S1"][2].location.latitude
    /\ appended["S1"][1].location.longitude = appended["S1"][2].location.longitude
    /\ response.op = "update_location"
    /\ response.status = 200
    /\ location_stats["S1"].total_updates = 2
    /\ location_stats["S1"].total_distance = 0

(***************************************************************************)
(* Claims about best-effort distances                                      *)
(***************************************************************************)
\* The user_location text is not "lat,lng" with two numbers.
Malformed(fields) ==
    \/ Len(fields) /= 2
    \/ \E i \in 1..Len(fields) : ~IsSome(fields[i])

OtherwiseAccepted(data) ==
    /\ ~InvalidLocation(data.location)
    /\ SessionIdOr(data) \in DOMAIN last_location_update
    /\ ~Throttled(last_location_update, SessionIdOr(data), now)
    /\ ~StatsRaises(location_stats, SessionIdOr(data), Val(data.location))

\* C22: an otherwise accepted ingest appends the sample, updates the stats
\* and is answered 200 whatever the destination's coordinates are; the
\* answer carries no distance when the computation failed.
C22_IngestSurvivesDestination ==
    [][\A data \in BestEffortRequests :
          (OtherwiseAccepted(data) /\ update_location(data))
          => /\ response'.status = 200
             /\ Len(appended'[SessionIdOr(data)]) = Len(Appended(SessionIdOr(data))) + 1
             /\ location_stats'[SessionIdOr(data)].total_updates =
                    TotalUpdates(location_stats, SessionIdOr(data)) + 1]_vars

(***************************************************************************)
(* Claims about concurrent handlers                                        *)
(***************************************************************************)
\* The samples that single ingests appended for a session, in order.
SingleIngests(session_id) ==
    SelectSeq(Get(appended, session_id, <<>>), LAMBDA r : ~r.bulk_update)

\* C23: the throttle holds under concurrent handlers: of the single ingests
\* for one session, no two that the server received less than
\* LOCATION_UPDATE_THROTTLE seconds apart are both accepted and appended.
C23_ConcurrentIngestsThrottled ==
    \A session_id \in DOMAIN appended :
        \A i, j \in 1..Len(SingleIngests(session_id)) :
            i < j =>
                SingleIngests(session_id)[j].server_received_at
                    - SingleIngests(session_id)[i].server_received_at
                    >= LOCATION_UPDATE_THROTTLE

\* C24: mutations of one session are atomic with respect to each other: once
\* the interleaved ingests and bulk ingests have returned, the history holds
\* every appended sample but those evicted at the cap, and total_updates
\* equals the number of stats updates that ran (every sample here carries its
\* coordinates, so one stats update ran for each appended sample).
C24_MutationsAtomic ==
    AllIdle =>
        \A session_id \in DOMAIN appended :
            /\ History(session_id) = LastN(Appended(session_id), MaxLocationHistory)
            /\ TotalUpdates(location_stats, session_id) = Len(Appended(session_id))

(***************************************************************************)
(* Claims about sessions and the tracker                                   *)
(***************************************************************************)
\* C25: once a session is completed its location history stops growing: no
\* request appends a sample to the history of a session whose status is
\* completed.
C25_CompletedSessionHistoryFrozen ==
    [][\A session_id \in DOMAIN navigation_sessions :
          navigation_sessions[session_id].status = "completed"
              => Appended(session_id)' = Appended(session_id)]_vars

\* d.get(key): the stored value, or None when the key is absent.
Lookup(d, key) == IF key \in DOMAIN d THEN Some(d[key]) ELSE None

\* What the tracker holds for a session: throttle timestamp, update counter,
\* history and stats.
Tracked(session_id) ==
    <<Lookup(last_location_update, session_id),
      Lookup(location_update_counts, session_id),
      Lookup(location_history, session_id),
      Lookup(location_stats, session_id),
      Lookup(appended, session_id)>>

\* The session's own last unthrottled ingest is LOCATION_UPDATE_THROTTLE
\* seconds old or older, or there is none.
OwnWindowOver(session_id) ==
    \/ session_id \notin DOMAIN last_location_update
    \/ now - last_location_update[session_id] >= LOCATION_UPDATE_THROTTLE

\* C26: the throttle is per session: an ingest whose own session is outside
\* its window is not answered 429, however recent the ingests of other
\* sessions, and an ingest changes the timestamp, counter, history and stats
\* of no other session.
C26_ThrottlePerSession ==
    [][\A data \in SessionIngests :
          update_location(data) =>
              /\ OwnWindowOver(Val(data.session_id)) => response'.status /= 429
              /\ \A other \in TrackedSessions \ {Val(data.session_id)} :
                     Tracked(other)' = Tracked(other)]_vars

\* An ingest of "S2" was accepted in the second in which "S1" was updated.
C26_Witness ==
    /\ response.op = "update_location"
    /\ response.status = 200
    /\ response.session_id = "S2"
    /\ "S1" \in DOMAIN last_location_update
    /\ last_location_update["S1"] = now
    /\ Len(Appended("S1")) > 0

\* C27: a bulk ingest is outside the throttle: it is never answered 429, a
\* batch within the limit is processed however recent the session's last
\* single ingest, and it leaves the throttle timestamp and the update counter
\* of every session as they were, so the throttle window of a following
\* single ingest is what it was before the batch.
C27_BulkOutsideThrottle ==
    [][\A data \in LargeBulkRequests :
          bulk_update_location(data) =>
              /\ response'.status /= 429
              /\ ~BulkTooLong(Val(data.locations)) =>
                     /\ response'.status = 200
                     /\ Len(Appended("S1")') > Len(Appended("S1"))
              /\ last_location_update' = last_location_update
              /\ location_update_counts' = location_update_counts
              /\ WindowRunning("S1")' = WindowRunning("S1")]_vars

\* A batch was processed inside the throttle window of its session.
C27_Witness ==
    /\ response.op = "bulk_update_location"
    /\ response.status = 200
    /\ response.processed_count > 0
    /\ WindowRunning("S1")

(***************************************************************************)
(* Claims about the speed records                                          *)
(***************************************************************************)
\* The appended samples of a session that carry a speed greater than 0.
WithSpeed(session_id) ==
    SelectSeq(Appended(session_id),
              LAMBDA r : IsSome(r.location.speed) /\ Val(r.location.speed) > 0)

\* The speed records those samples make, oldest first.
SpeedsIngested(session_id) ==
    [i \in 1..Len(WithSpeed(session_id)) |->
        [speed |-> Val(WithSpeed(session_id)[i].location.speed),
         timestamp |-> WithSpeed(session_id)[i].server_received_at]]

\* C28: speed_records of every session holds at most MaxSpeedRecords entries,
\* all with a speed greater than 0, and is the most recent MaxSpeedRecords of
\* the positive speeds ingested, in order: when full, the oldest goes first.
C28_SpeedRecordsBounded ==
    \A session_id \in DOMAIN location_stats :
        LET records == location_stats[session_id].speed_records
        IN  /\ Len(records) <= MaxSpeedRecords
            /\ \A i \in 1..Len(records) : records[i].speed > 0
            /\ records = LastN(SpeedsIngested(session_id), MaxSpeedRecords)

\* The list is full, older records were dropped, and a sample with speed 0
\* and one without a speed were ingested.
C28_Witness ==
    /\ "S1" \in DOMAIN location_stats
    /\ Len(location_stats["S1"].speed_records) = MaxSpeedRecords
    /\ Len(SpeedsIngested("S1")) > MaxSpeedRecords
    /\ \E i \in 1..Len(Appended("S1")) : Appended("S1")[i].location.speed = Some(0)
    /\ \E i \in 1..Len(Appended("S1")) : Appended("S1")[i].location.speed = None

(***************************************************************************)
(* Claims about the session table                                          *)
(***************************************************************************)
\* C29: in every reachable state each stored session has location tracking
\* enabled exactly when its status is active, and is either active or
\* completed; so the tracking-enabled sessions number as many as the active
\* ones, and active plus completed is the total.
C29_TrackingFollowsStatus ==
    /\ \A session_id \in DOMAIN navigation_sessions :
          LET session == navigation_sessions[session_id]
          IN  /\ session.status \in {"active", "completed"}
              /\ session.location_tracking_enabled <=> session.status = "active"
    /\ ActiveTracking(navigation_sessions) = SessionsOfStatus(navigation_sessions, "active")
    /\ SessionsOfStatus(navigation_sessions, "active")
          + SessionsOfStatus(navigation_sessions, "completed")
          = TotalSessions(navigation_sessions)

\* One session was completed and another is active, with tracking enabled.
C29_Witness ==
    /\ SessionsOfStatus(navigation_sessions, "completed") = 1
    /\ SessionsOfStatus(navigation_sessions, "active") = 1
    /\ ActiveTracking(navigation_sessions) = 1
    /\ TotalSessions(navigation_sessions) = 2

(***************************************************************************)
(* Claims about throttled ingests                                          *)
(***************************************************************************)
\* C30: an ingest answered 429 changes nothing: the history, the stats, the
\* update counter and the last-update timestamp of every session, and the
\* request log, are what they were, so a throttled request does not extend
\* the throttle window.
C30_ThrottledChangesNothing ==
    [][\A data \in ThrottleRequests :
          (update_location(data) /\ response'.status = 429) =>
              UNCHANGED <<location_history, location_stats, location_update_counts,
                          last_location_update, appended, api_request_logs>>]_vars

\* An ingest was throttled one second into the window of an accepted one.
C30_Witness ==
    /\ response.op = "update_location"
    /\ response.status = 429
    /\ response.throttle_remaining = 1
    /\ Len(Appended("S1")) > 0
    /\ last_location_update["S1"] = now - 1

(***************************************************************************)
(* Claims about failed requests                                            *)
(***************************************************************************)
\* C31: a step completion is all-or-nothing: when it is answered 400, 404 or
\* 500, no record was appended to completed_steps and no session changed
\* (completed_steps and last_update of the session included).
C31_FailedStepRecordsNothing ==
    [][\A data \in TableSteps :
          (step_completed(data) /\ response'.status \in {400, 404, 500}) =>
              /\ completed_steps' = completed_steps
              /\ navigation_sessions' = navigation_sessions]_vars

\* C32: only accepted updates count toward the throttle window: an ingest
\* that is not answered 200 and appends no sample leaves the last-update
\* timestamp and the update counter of its session as they were.
C32_FailedIngestKeepsWindow ==
    [][\A data \in ThrottleRequests :
          (/\ update_location(data)
           /\ response'.status /= 200
           /\ appended' = appended) =>
              /\ last_location_update' = last_location_update
              /\ location_update_counts' = location_update_counts]_vars

\* C33: history and stats never drift apart: after any sequence of single
\* and bulk ingests, failed ones included, total_updates of a session equals
\* the number of samples ever appended to its history.
C33_TotalUpdatesCountsAppended ==
    \A session_id \in DOMAIN appended :
        TotalUpdates(location_stats, session_id) = Len(Appended(session_id))

(***************************************************************************)
(* Claims about the progress of a session                                  *)
(***************************************************************************)
\* C34 as stated: a step completion never lowers completed_steps of its
\* session, in app.py or in gps.py.
C34_CompletedStepsNeverDecrease ==
    [][\A data \in RouteStepRequests :
          /\ (/\ Val(data.session_id) \in DOMAIN navigation_sessions
              /\ step_completed(data))
             => navigation_sessions'[Val(data.session_id)].completed_steps
                  >= navigation_sessions[Val(data.session_id)].completed_steps
          /\ (/\ Val(data.session_id) \in DOMAIN gps_navigation_sessions
              /\ gps_step_completed(data))
             => gps_navigation_sessions'[Val(data.session_id)].completed_steps
                  >= gps_navigation_sessions[Val(data.session_id)].completed_steps]_vars

\* C34 amended: a step completion with step_index i of a known session sets
\* completed_steps to i + 1 whatever it was before, so a lower index reported
\* after a higher one lowers it; in app.py and in gps.py.
C34_CompletedStepsFollowLastIndex ==
    [][\A data \in RouteStepRequests :
          /\ (/\ Val(data.session_id) \in DOMAIN navigation_sessions
              /\ step_completed(data))
             => navigation_sessions'[Val(data.session_id)].completed_steps
                  = Val(data.step_index) + 1
          /\ (/\ Val(data.session_id) \in DOMAIN gps_navigation_sessions
              /\ gps_step_completed(data))
             => gps_navigation_sessions'[Val(data.session_id)].completed_steps
                  = Val(data.step_index) + 1]_vars

\* C34 witness: step 0 was reported right after step 2, and the session
\* counts 1 completed step.
C34_Witness ==
    /\ response.op = "step_completed"
    /\ response.status = 200
    /\ response.step_index = 0
    /\ Len(completed_steps) >= 2
    /\ completed_steps[Len(completed_steps) - 1].step_index = 2
    /\ navigation_sessions["S1"].completed_steps = 1

\* C35: every progress percentage reported for a session of total_steps > 0
\* lies between 0 and 100: the one a step completion reports (in tenths of
\* a percent) and the one in the summary of a status answer.
C35_PercentageWithinRange ==
    /\ (/\ response.op \in {"step_completed", "gps_step_completed"}
        /\ response.status = 200)
       => /\ response.percentage >= 0
          /\ response.percentage <= 1000
    /\ (/\ response.op \in {"get_navigation_status", "gps_get_navigation_status"}
        /\ response.status = 200
        /\ Truthy(response.summary.total_steps))
       => /\ response.summary.progress_percentage.num >= 0
          /\ response.summary.progress_percentage.num
               <= 100 * response.summary.progress_percentage.den

(***************************************************************************)
(* Claims about the stats of samples that lack a field                     *)
(***************************************************************************)
\* The appended samples of a session that carry an accuracy other than 0.
WithAccuracy(session_id) ==
    SelectSeq(Appended(session_id), LAMBDA r : Truthy(r.location.accuracy))

\* C36: average_accuracy of a session is the arithmetic mean of the
\* accuracies of exactly those ingested samples that carry one, also when
\* other ingested samples carry none.
C36_AverageOverAccurateSamples ==
    \A session_id \in DOMAIN appended :
        WithAccuracy(session_id) /= <<>>
        => location_stats[session_id].average_accuracy =
               Frac(SumAccuracy(WithAccuracy(session_id)), Len(WithAccuracy(session_id)))

\* C37: whenever the stats of a session count at least one update,
\* first_location is present and is the location of the first sample
\* ingested for the session, whether or not the session was started before.
C37_FirstLocationIsFirstSample ==
    \A session_id \in DOMAIN location_stats :
        location_stats[session_id].total_updates >= 1
        => /\ Appended(session_id) /= <<>>
           /\ location_stats[session_id].first_location
                = Some(Appended(session_id)[1].location)

(***************************************************************************)
(* Claims about a session that is started again                            *)
(***************************************************************************)
\* No step was completed for the session since its last start.
NoStepSinceStart(session) ==
    /\ session.completed_steps = 0
    /\ session.last_update = None

\* Every step recorded so far was answered 200: it carried both coordinates.
StepsAllAnswered ==
    \A i \in 1..Len(completed_steps) :
        ~InvalidLocation(Some(completed_steps[i].current_location))

\* C38: from a start of a session, a re-start included, until a step is
\* completed for it, a status request reports 0 completed steps and 0%
\* progress: step records of an earlier incarnation of the session_id are not
\* counted.  (Stated for runs in which no step completion failed.)
C38_StatusOfRestartedSession ==
    [][(/\ "S1" \in DOMAIN navigation_sessions
        /\ NoStepSinceStart(navigation_sessions["S1"])
        /\ StepsAllAnswered
        /\ get_navigation_status("S1"))
       => /\ response'.status = 200
          /\ response'.summary.completed_steps = 0
          /\ response'.summary.progress_percentage = Frac(0, 1)]_vars

====
